---- MODULE Spec2Model ----
(***************************************************************************)
(* Position-lifecycle engine of the algo-trader repository: the paper      *)
(* trading ledger (SimulatedWallet / UserWalletManager), the order-open    *)
(* path (OrderManager), the position monitor (PositionManager) and the     *)
(* per-tenant control loop (TradingBot / UserTradingBot).                  *)
(*                                                                         *)
(* Units.  The source computes in floating point; the model uses integers: *)
(*   prices  in 1/100   USDT  (10000  = 100.00 USDT)                       *)
(*   sizes   in 1/100   coin  (200    = 2.00 coins)                        *)
(*   money   in 1/10000 USDT  (400000 = 40.00 USDT), so that               *)
(*           money = price * size without rounding                        *)
(*   scores, strengths and percentages in 1/100 (70 = 0.70)                *)
(* Divisions round down to the unit.                                       *)
(*                                                                         *)
(* Two deployments exist in the source and both are modelled; impl says    *)
(* which one a behaviour is about:                                         *)
(*   "sim"  : TradingBot + OrderManager(dry_run) + SimulatedWallet,        *)
(*            one thread, the loop is the only caller of the ledger        *)
(*   "user" : UserTradingBot + UserWalletManager, the loop runs in its own *)
(*            thread and the dashboard routes of app.py call the ledger    *)
(*            from request threads                                         *)
(***************************************************************************)
EXTENDS Integers, Sequences, FiniteSets, TLC

VARIABLES
    impl,             \* "sim" | "user": the deployment
    trading_params,   \* TRADING_PARAMS: the side switches of the configuration
    analysis,         \* the market data given to a strategy and the signal it returned
    balance,          \* wallet: available balance
    locked_margin,    \* wallet: margin locked in open positions
    initial_balance,  \* wallet: initial balance
    total_pnl,        \* wallet: realized P&L
    total_trades,     \* wallet counters (UserSimulatedWallet only)
    winning_trades,
    losing_trades,
    positions,        \* open positions: position_id -> position record
    closed_ids,       \* position_ids of UserSimulatedPosition rows with is_open = False
    trade_history,    \* sequence of history records
    pc,               \* position of each loop thread of the tenant
    is_running,       \* the bot's is_running flag
    stop_requested,   \* an explicit stop has been requested (the stop event is set)
    stop_issued,      \* stop() has been called since the last start() (history)
    tick_critical,    \* the balance utilization of the current tick is critical (history)
    to_manage,        \* snapshot of positions still to monitor in this tick
    scan_idx,         \* per thread: index in TradingPairs of the next symbol to scan
    pending,          \* per thread: a signal that passed the checks of _process_signal
    close_request,    \* dashboard: the position a close request in flight has looked up
    opened,           \* number of successful opens so far (bounds the model)
    requests,         \* number of dashboard requests so far (bounds the model)
    last_op,          \* the last ledger or loop operation and its outcome
    wallets,          \* table UserSimulatedWallet: one row per tenant
    position_rows,    \* table UserSimulatedPosition: position_id -> row
    trade_rows,       \* table UserTradeHistory: the rows in insertion order
    tenant_op,        \* the last operation on the tables: tenant, operation, outcome
    tenant_ops,       \* number of operations of the tenants so far (bounds the model)
    strategy_managers,\* _user_strategy_managers: key -> the manager's registry and active strategy
    custom_dir,       \* strategy ids of the files in the custom strategies directory
    loader,           \* CustomStrategyLoader, sys.modules and table CustomStrategy
    closing           \* close_position calls in flight: request thread -> what its session has read

wallet_vars == <<balance, locked_margin, initial_balance, total_pnl,
                 total_trades, winning_trades, losing_trades>>
ledger_vars == <<balance, locked_margin, initial_balance, total_pnl,
                 total_trades, winning_trades, losing_trades,
                 positions, closed_ids, trade_history>>
tenant_vars == <<wallets, position_rows, trade_rows, tenant_op, tenant_ops,
                 strategy_managers, custom_dir, loader, closing>>
loop_vars == <<pc, is_running, stop_requested, stop_issued, tick_critical, to_manage, scan_idx, pending>>
vars == <<impl, trading_params, analysis, balance, locked_margin, initial_balance, total_pnl,
          total_trades, winning_trades, losing_trades,
          positions, closed_ids, trade_history,
          pc, is_running, stop_requested, stop_issued, tick_critical, to_manage, scan_idx, pending,
          close_request, opened, requests, last_op,
          wallets, position_rows, trade_rows, tenant_op, tenant_ops,
          strategy_managers, custom_dir, loader, closing>>

----------------------------------------------------------------------------
(* Bounds of the model *)

\* successful opens after which no further position is opened
MaxOpened == 3

\* dashboard requests (a close submitted twice counts once) after which no
\* further request arrives
MaxRequests == 1

(* Inputs *)

\* TRADING_PAIRS, scanned in this order (the first three of config.py)
TradingPairs == <<"BTCUSDT", "ETHUSDT", "XRPUSDT">>

\* get_latest_price: 0 is "unavailable"
MarketPrices == {0, 10200, 11000}

\* latest prices for the trailing-stop runs: two beyond the trailing threshold on
\* either side of the entry price, none reaching a take-profit
TrailPrices == {9700, 9800, 10200, 10300}

\* latest prices for the take-profit and stop-loss runs: the entry price, and the
\* take-profit of either side, which lies beyond the stop-loss of the other
TpSlPrices == {9600, 10000, 10400}

\* latest prices around the trailing threshold: a profit of exactly
\* trailing_stop_percent for either side, and one beyond it for either side
ThresholdPrices == {9700, 9850, 10150, 10300}

\* last close of the short-term candles, the signal's current_price
SignalPrices == {10000}

\* bullish scores of a signal: none, or strong enough for an entry
BullishScores == {0, 100}

\* bearish scores of a signal: none, or above the reversal threshold of
\* should_close_position (0.6) and below min_signal_strength
BearishScores == {0, 65}

\* strengths of a strategy's signal
Strengths == {65, 100}

\* actions of the signals of the tenant's strategy (the entries of the "sim"
\* deployment are long, those of the "user" deployment short)
StrategyActions == {"short", "flat"}

\* loop threads a tenant's bot can have created; TradingBot runs its loop in "t1"
Threads == {"t1", "t2"}

\* ATR carried by a signal (0 would stand for None / not available)
AtrValues == {200}

\* profile.simulated_balance a tenant may have set when the wallet is reset
\* (50 USDT, 120 USDT)
ResetBalances == {500000, 1200000}

None == "none"

----------------------------------------------------------------------------
(* Configuration (config.py) *)

simulated_balance == 10000000
max_position_size_percent == 10
leverage == 5
stop_loss_percent == 2
take_profit_percent == 4
trailing_stop == TRUE
trailing_stop_permille == 15
use_atr_stop_loss == TRUE
atr_stop_loss_multiplier_x10 == 15
atr_take_profit_multiplier_x10 == 30
min_signal_strength == 70
\* the tenant's setting (profile.max_open_positions; the default is 3), below
\* the number of symbols scanned
max_open_positions == 2
enable_long == TRUE
\* wallet_manager.py, get_balance_health
critical_utilization_percent == 80
enable_short == TRUE

----------------------------------------------------------------------------
(* SimulatedWallet / UserWalletManager: the ledger *)

\* a position record as open_position creates it
NewPosition(pair, side, entry_price, size, margin, lev, stop_loss, take_profit) ==
    [pair |-> pair, side |-> side, entry_price |-> entry_price,
     current_price |-> entry_price, size |-> size, margin |-> margin,
     leverage |-> lev, stop_loss |-> stop_loss, take_profit |-> take_profit,
     pnl |-> 0, pnl_percent |-> 0]

\* (variant: no balance check)
InsufficientBalance_Never(bal, margin) == FALSE

\* open_position refuses when the available balance is below the margin
InsufficientBalance(bal, margin) == bal < margin

\* open_position: "Lock margin"
BalanceAfterOpen(bal, margin) == bal - margin
\* (variant: the margin is debited but not locked)
LockedAfterOpen_NotLocked(locked, margin) == locked

LockedAfterOpen(locked, margin) == locked + margin

\* (variant: every position is settled as a long one)
CalcPnl_LongOnly(side, entry_price, price, size) == (price - entry_price) * size

\* P&L by side, as update_position_price and close_position compute it
CalcPnl(side, entry_price, price, size) ==
    IF side = "long" THEN (price - entry_price) * size
                     ELSE (entry_price - price) * size

\* (pnl / margin) * 100 if margin > 0 else 0
CalcPnlPercent(pnl, margin) ==
    IF margin > 0 THEN (pnl * 100) \div margin ELSE 0

\* (variant: the update also re-bases the entry price on the new price)
UpdatedPosition_Rebased(p, price) ==
    [p EXCEPT !.current_price = price, !.entry_price = price, !.pnl = 0, !.pnl_percent = 0]

\* update_position_price: the fields it assigns
UpdatedPosition(p, price) ==
    LET pnl == CalcPnl(p.side, p.entry_price, price, p.size)
    IN  [p EXCEPT !.current_price = price,
                  !.pnl = pnl,
                  !.pnl_percent = CalcPnlPercent(pnl, p.margin)]

\* close_position: "Release margin + P&L"
LockedAfterClose(locked, margin) == locked - margin
\* (variant: the margin is released without the realized P&L)
BalanceAfterClose_MarginOnly(bal, margin, pnl) == bal + margin

BalanceAfterClose(bal, margin, pnl) == bal + margin + pnl
TotalPnlAfterClose(tp, pnl) == tp + pnl

\* (variant: a trade that breaks even counts as won)
IsWinningTrade_NonNegative(pnl) == pnl >= 0

\* close_position: "if pnl > 0: winning_trades += 1 else: losing_trades += 1"
IsWinningTrade(pnl) == pnl > 0

\* the history record appended by a close (the fields the model keeps)
CloseRecord(id, p, close_price, pnl, reason) ==
    [type |-> "close", position_id |-> id, pair |-> p.pair, pnl |-> pnl, reason |-> reason]

\* the history record SimulatedWallet.open_position appends
OpenRecord(id, p) ==
    [type |-> "open", position_id |-> id, pair |-> p.pair, pnl |-> 0, reason |-> ""]

\* (variant: the pair check finds nothing)
HasPositionForPair_Never(pair) == FALSE

\* has_position_for_pair
HasPositionForPair(pair) ==
    \E id \in DOMAIN positions : positions[id].pair = pair

\* get_all_positions, as a count
OpenPositionsCount == Cardinality(DOMAIN positions)

\* the lookup at the head of close_position / update_position_price / get_position
PositionFound(id) == id \in DOMAIN positions

\* UserSimulatedPosition.position_id is unique over all rows, open or closed;
\* SimulatedWallet stores positions in a dict and overwrites
OpenRejectedAsDuplicate(id) ==
    impl = "user" /\ (id \in DOMAIN positions \/ id \in closed_ids)

\* sum of the margins of the open positions
RECURSIVE SumMargins(_)
SumMargins(ids) ==
    IF ids = {} THEN 0
    ELSE LET id == CHOOSE x \in ids : TRUE
         IN  positions[id].margin + SumMargins(ids \ {id})

\* the empty map of positions
NoPositions == [k \in {} |-> 0]

\* (variant: the key is not removed)
Without_Kept(f, id) == f

\* a map without one key
Without(f, id) == [k \in (DOMAIN f) \ {id} |-> f[k]]

\* a map with one key set
With(f, id, v) == [k \in (DOMAIN f) \cup {id} |-> IF k = id THEN v ELSE f[k]]

----------------------------------------------------------------------------
(* OrderManager: sizing, TP/SL pricing *)

\* floor(a * b / c) for a, b >= 0 and c > 0, without an intermediate product a * b
MulDiv(a, b, c) == (a \div c) * b + ((a % c) * b) \div c

\* open_position_with_tp_sl: adjusted_percent = max_position_percent * signal_strength
\* (in 1/100 percent, the strength being in 1/100)
AdjustedPercent(strength) == max_position_size_percent * strength

\* (variant: the size is the position value without the leverage)
CalculatePositionSize_Unleveraged(bal, current_price, lev, pct_x100) ==
    MulDiv(bal, pct_x100, 10000) \div current_price

\* calculate_position_size: (balance * (max_position_percent / 100) * leverage) / current_price
CalculatePositionSize(bal, current_price, lev, pct_x100) ==
    LET max_position_value == MulDiv(bal, pct_x100, 10000)
    IN  (max_position_value * lev) \div current_price

\* (variant: the whole notional value is locked)
CalcMargin_Notional(position_size, entry_price, lev) == (position_size * entry_price)

\* margin = (position_size * entry_price) / leverage
CalcMargin(position_size, entry_price, lev) == (position_size * entry_price) \div lev

\* calculate_tp_sl_prices; atr = 0 stands for None
UseAtr(atr) == use_atr_stop_loss /\ atr > 0

CalculateTpSlPrices(entry_price, side, tp_percent, sl_percent, atr) ==
    IF UseAtr(atr)
    THEN LET sl_distance == (atr * atr_stop_loss_multiplier_x10) \div 10
             tp_distance == (atr * atr_take_profit_multiplier_x10) \div 10
         IN  IF side = "long"
             THEN [stop_loss |-> entry_price - sl_distance, take_profit |-> entry_price + tp_distance]
             ELSE [stop_loss |-> entry_price + sl_distance, take_profit |-> entry_price - tp_distance]
    ELSE IF side = "long"
         THEN [take_profit |-> (entry_price * (100 + tp_percent)) \div 100,
               stop_loss   |-> (entry_price * (100 - sl_percent)) \div 100]
         ELSE [take_profit |-> (entry_price * (100 - tp_percent)) \div 100,
               stop_loss   |-> (entry_price * (100 + sl_percent)) \div 100]

----------------------------------------------------------------------------
(* PositionManager: TP/SL check, trailing stop; SignalGenerator: reversal *)

\* (variant: the TP/SL check never reports a hit)
CheckTpSlHit_Never(p, current_price) == None

\* (variant: the levels are hit only when the price has passed them)
CheckTpSlHit_Strict(p, current_price) ==
    IF p.side = "long"
    THEN IF p.take_profit > 0 /\ current_price > p.take_profit THEN "TP"
         ELSE IF p.stop_loss > 0 /\ current_price < p.stop_loss THEN "SL"
         ELSE None
    ELSE IF p.side = "short"
    THEN IF p.take_profit > 0 /\ current_price < p.take_profit THEN "TP"
         ELSE IF p.stop_loss > 0 /\ current_price > p.stop_loss THEN "SL"
         ELSE None
    ELSE None

\* check_tp_sl_hit: "TP", "SL" or None
CheckTpSlHit(p, current_price) ==
    IF p.side = "long"
    THEN IF p.take_profit > 0 /\ current_price >= p.take_profit THEN "TP"
         ELSE IF p.stop_loss > 0 /\ current_price <= p.stop_loss THEN "SL"
         ELSE None
    ELSE IF p.side = "short"
    THEN IF p.take_profit > 0 /\ current_price <= p.take_profit THEN "TP"
         ELSE IF p.stop_loss > 0 /\ current_price >= p.stop_loss THEN "SL"
         ELSE None
    ELSE None

\* (variant: the trailing stop engages at the threshold itself)
TrailingEngaged_AtThreshold(p, current_price) ==
    IF p.side = "long"
    THEN (current_price - p.entry_price) * 1000 >= trailing_stop_permille * p.entry_price
    ELSE (p.entry_price - current_price) * 1000 >= trailing_stop_permille * p.entry_price

\* update_trailing_stop: profit_percent > trailing_percent, compared without dividing
TrailingEngaged(p, current_price) ==
    IF p.side = "long"
    THEN (current_price - p.entry_price) * 1000 > trailing_stop_permille * p.entry_price
    ELSE (p.entry_price - current_price) * 1000 > trailing_stop_permille * p.entry_price

\* update_trailing_stop: the candidate stop
TrailingCandidate(p, current_price) ==
    IF p.side = "long"
    THEN (current_price * (1000 - trailing_stop_permille)) \div 1000
    ELSE (current_price * (1000 + trailing_stop_permille)) \div 1000

\* (variant: every candidate of an engaged trailing stop is accepted)
UpdateTrailingStop_NoRatchet(p, current_price) ==
    IF ~trailing_stop THEN 0
    ELSE IF ~TrailingEngaged(p, current_price) THEN 0
    ELSE TrailingCandidate(p, current_price)

\* update_trailing_stop: the new stop, or 0 for None
UpdateTrailingStop(p, current_price) ==
    IF ~trailing_stop THEN 0
    ELSE IF ~TrailingEngaged(p, current_price) THEN 0
    ELSE LET new_sl == TrailingCandidate(p, current_price)
         IN  IF p.side = "long"
             THEN IF p.stop_loss = 0 \/ new_sl > p.stop_loss THEN new_sl ELSE 0
             ELSE IF p.stop_loss = 0 \/ new_sl < p.stop_loss THEN new_sl ELSE 0

\* (variant: a score at the threshold already counts as a reversal)
ShouldClosePosition_AtThreshold(p, sig) ==
    IF p.side = "long"
    THEN sig.bearish_score >= 60 /\ sig.bearish_score > sig.bullish_score
    ELSE IF p.side = "short"
    THEN sig.bullish_score >= 60 /\ sig.bullish_score > sig.bearish_score
    ELSE FALSE

\* should_close_position
ShouldClosePosition(p, sig) ==
    IF p.side = "long"
    THEN sig.bearish_score > 60 /\ sig.bearish_score > sig.bullish_score
    ELSE IF p.side = "short"
    THEN sig.bullish_score > 60 /\ sig.bullish_score > sig.bearish_score
    ELSE FALSE

\* _combine_multi_timeframe_signals: action and strength from the two scores
CombineSignal(bullish_score, bearish_score, current_price, atr) ==
    LET action == IF bullish_score > bearish_score /\ bullish_score > 50 THEN "long"
                  ELSE IF bearish_score > bullish_score /\ bearish_score > 50 THEN "short"
                  ELSE "flat"
    IN  [action |-> action,
         strength |-> IF action = "long" THEN bullish_score
                      ELSE IF action = "short" THEN bearish_score ELSE 0,
         bullish_score |-> bullish_score, bearish_score |-> bearish_score,
         current_price |-> current_price, atr |-> atr]

\* _generate_signal_with_strategy: the scores are derived from the strategy's action
StrategySignal(action, strength, current_price, atr) ==
    [action |-> action, strength |-> strength,
     bullish_score |-> IF action = "long" THEN strength ELSE 0,
     bearish_score |-> IF action = "short" THEN strength ELSE 0,
     current_price |-> current_price, atr |-> atr]

\* the signals generate_signal may return to TradingBot (legacy mode; _execute_trade passes no ATR)
SimSignals ==
    {CombineSignal(b, s, p, 0) : b \in BullishScores, s \in BearishScores, p \in SignalPrices}

\* signals for the trailing-stop runs: a full bullish or bearish score, both or none
TrailSignals ==
    {CombineSignal(b, s, p, 0) : b \in {0, 100}, s \in {0, 100}, p \in SignalPrices}

\* the signals of generate_signal with the ATR it enters as signal['atr']
AtrSignals ==
    {CombineSignal(b, s, p, atr) : b \in BullishScores, s \in BearishScores,
                                   p \in SignalPrices, atr \in AtrValues}

\* the signals generate_signal may return to UserTradingBot (strategy system)
UserSignals ==
    {StrategySignal(a, st, p, atr) : a \in StrategyActions, st \in Strengths,
                                     p \in SignalPrices, atr \in AtrValues}

\* _evaluate_signal: the signal leads to _execute_trade
SignalApproved(sig) ==
    /\ ~(sig.strength < min_signal_strength)
    /\ ~(sig.action = "long" /\ ~trading_params.enable_long)
    /\ ~(sig.action = "short" /\ ~trading_params.enable_short)
    /\ sig.action # "flat"

\* UserTradingBot._trading_cycle: the signal leads to _process_signal
UserSignalApproved(sig) ==
    /\ ~(sig.strength < min_signal_strength)
    /\ sig.action \in {"long", "short"}

----------------------------------------------------------------------------
(* The record of the last operation *)

Op(op, id, ok, margin, pnl) ==
    [op |-> op, id |-> id, ok |-> ok, margin |-> margin, pnl |-> pnl]

NoOp == Op("none", None, FALSE, 0, 0)

\* (variant: a price of 0 is taken as a price)
PriceUnavailable_Never(current_price) == FALSE

\* "if current_price == 0": the latest price could not be fetched
PriceUnavailable(current_price) == current_price = 0

\* position ids (uuid4().hex[:8] of execute_market_order), in the order in
\* which they are drawn and in which a snapshot of the open positions is walked
IdOrder == <<"p1", "p2", "p3">>

InSnapshot(id) == id \in DOMAIN positions

\* the id execute_market_order draws (uuid4): a new one per order, until the
\* model's ids are used up and drawn again
CandidateIds == {IdOrder[(opened % Len(IdOrder)) + 1]}

\* get_all_positions(): the open positions at the time of the call
PositionsSnapshot == SelectSeq(IdOrder, InSnapshot)

----------------------------------------------------------------------------
(* Ledger operations, as effects on the ledger variables *)

\* open_position returns True
OpenSucceeds(id, pos, dbok) ==
    /\ ~InsufficientBalance(balance, pos.margin)
    /\ ~OpenRejectedAsDuplicate(id)
    /\ (impl = "user" => dbok)

\* SimulatedWallet.open_position / UserWalletManager.open_position
\* (a failed commit of the user wallet is rolled back)
WalletOpenPosition(id, pos, dbok) ==
    IF OpenSucceeds(id, pos, dbok)
    THEN /\ balance' = BalanceAfterOpen(balance, pos.margin)
         /\ locked_margin' = LockedAfterOpen(locked_margin, pos.margin)
         /\ positions' = With(positions, id, pos)
         /\ trade_history' = IF impl = "sim"
                             THEN Append(trade_history, OpenRecord(id, pos))
                             ELSE trade_history
         /\ UNCHANGED <<initial_balance, total_pnl, total_trades,
                        winning_trades, losing_trades, closed_ids>>
    ELSE UNCHANGED ledger_vars

\* close_position returns a result
CloseSucceeds(id, dbok) == PositionFound(id) /\ (impl = "user" => dbok)

\* SimulatedWallet.close_position / UserWalletManager.close_position
WalletClosePosition(id, close_price, reason, dbok) ==
    IF CloseSucceeds(id, dbok)
    THEN LET p == positions[id]
             pnl == CalcPnl(p.side, p.entry_price, close_price, p.size)
         IN  /\ locked_margin' = LockedAfterClose(locked_margin, p.margin)
             /\ balance' = BalanceAfterClose(balance, p.margin, pnl)
             /\ total_pnl' = TotalPnlAfterClose(total_pnl, pnl)
             /\ IF impl = "user"
                THEN /\ total_trades' = total_trades + 1
                     /\ winning_trades' = winning_trades + (IF IsWinningTrade(pnl) THEN 1 ELSE 0)
                     /\ losing_trades' = losing_trades + (IF IsWinningTrade(pnl) THEN 0 ELSE 1)
                     /\ closed_ids' = closed_ids \cup {id}
                ELSE UNCHANGED <<total_trades, winning_trades, losing_trades, closed_ids>>
             /\ trade_history' = Append(trade_history,
                                        CloseRecord(IF impl = "sim" THEN id ELSE None,
                                                    p, close_price, pnl, reason))
             /\ positions' = Without(positions, id)
             /\ UNCHANGED initial_balance
    ELSE UNCHANGED ledger_vars

\* the pnl a close of id at close_price realizes
ClosePnl(id, close_price) ==
    CalcPnl(positions[id].side, positions[id].entry_price, close_price, positions[id].size)

\* (variant: the unrealized P&L of a price update is booked on the balance)
WalletUpdatePositionPrice_BooksPnl(id, current_price) ==
    /\ positions' = IF PositionFound(id)
                    THEN [positions EXCEPT ![id] = UpdatedPosition(@, current_price)]
                    ELSE positions
    /\ balance' = IF PositionFound(id)
                  THEN balance + UpdatedPosition(positions[id], current_price).pnl
                  ELSE balance
    /\ UNCHANGED <<locked_margin, initial_balance, total_pnl, total_trades,
                   winning_trades, losing_trades, closed_ids, trade_history>>

\* SimulatedWallet.update_position_price / UserWalletManager.update_position_price
WalletUpdatePositionPrice(id, current_price) ==
    /\ positions' = IF PositionFound(id)
                    THEN [positions EXCEPT ![id] = UpdatedPosition(@, current_price)]
                    ELSE positions
    /\ UNCHANGED <<wallet_vars, closed_ids, trade_history>>

\* SimulatedWallet.reset / UserWalletManager.reset
WalletReset(init) ==
    /\ balance' = init
    /\ initial_balance' = init
    /\ locked_margin' = 0
    /\ total_pnl' = 0
    /\ total_trades' = 0
    /\ winning_trades' = 0
    /\ losing_trades' = 0
    /\ positions' = NoPositions
    /\ closed_ids' = {}
    /\ trade_history' = <<>>

----------------------------------------------------------------------------
(* OrderManager.open_position_with_tp_sl *)

\* (variant: the outcome of the submission is not looked at)
OrderFilled_Unchecked(size, bal, submitted) == size > 0 /\ bal > 0

\* execute_market_order returns an order: the size and the balance are valid and
\* the submission returned one (it did not fail or raise)
OrderFilled(size, bal, submitted) == size > 0 /\ bal > 0 /\ submitted

\* the position the order path records for a signal, sized on the balance bal
PositionFor(pair, sig, bal) ==
    LET size   == CalculatePositionSize(bal, sig.current_price, leverage,
                                        AdjustedPercent(sig.strength))
        entry  == sig.current_price
        tp_sl  == CalculateTpSlPrices(entry, sig.action, take_profit_percent,
                                      stop_loss_percent, sig.atr)
    IN  NewPosition(pair, sig.action, entry, size, CalcMargin(size, entry, leverage),
                    leverage, tp_sl.stop_loss, tp_sl.take_profit)

\* open_position_with_tp_sl(pair, side, balance, current_price, signal_strength, atr_value):
\* size, market order, TP/SL, margin, then the ledger's open_position.
\* submitted is the outcome of the order submission, an input.
OpenPositionWithTpSl(pair, sig, bal, id, submitted, dbok) ==
    LET pos == PositionFor(pair, sig, bal)
        filled == OrderFilled(pos.size, bal, submitted)
    IN  IF pos.size <= 0
        THEN /\ UNCHANGED <<ledger_vars, opened>>
             /\ last_op' = Op("size_too_small", None, FALSE, 0, 0)
        ELSE /\ IF filled THEN WalletOpenPosition(id, pos, dbok)
                          ELSE UNCHANGED ledger_vars
             /\ opened' = IF filled /\ OpenSucceeds(id, pos, dbok) THEN opened + 1 ELSE opened
             /\ last_op' = Op(IF submitted THEN "open" ELSE "order_failed", id,
                              filled /\ OpenSucceeds(id, pos, dbok), pos.margin, 0)

----------------------------------------------------------------------------
(* UserWalletManager over the tables of models.py: the wallets, positions  *)
(* and trades of all tenants are rows of three shared tables, and every    *)
(* operation of a tenant's manager selects its rows by the wallet's id     *)

\* the tenants (user ids; a tenant's wallet row carries its id)
Tenants == {"A", "B"}

\* values of the position_id column, unique over the whole table
RowIds == {"p1", "p2"}

\* operations on the tables after which no further operation is made
MaxTenantOps == 4

\* the request threads that may run close_position at the same time
Closers == {"r1", "r2"}

\* no call of close_position is in flight in the thread
NoClosing == [tenant |-> None]

\* _ensure_wallet_exists: the wallet row a tenant starts with
NewWallet(init) ==
    [balance |-> init, initial_balance |-> init, locked_margin |-> 0, total_pnl |-> 0,
     total_trades |-> 0, winning_trades |-> 0, losing_trades |-> 0]

TenantOp(w, op, id, ok) == [tenant |-> w, op |-> op, id |-> id, ok |-> ok]

\* (variant: the row is selected by position_id alone)
OpenRow_AnyWallet(rows, w, id) ==
    id \in DOMAIN rows /\ rows[id].is_open

\* query.filter_by(wallet_id=wallet.id, position_id=position_id, is_open=True).first()
OpenRow(rows, w, id) ==
    id \in DOMAIN rows /\ rows[id].wallet_id = w /\ rows[id].is_open

\* the rows of tenant w in the position table
RowsOf(rows, w) == {id \in DOMAIN rows : rows[id].wallet_id = w}

\* the part of the three tables that belongs to tenant w
TenantLedger(ws, rows, trades, w) ==
    [wallet |-> ws[w],
     positions |-> [id \in RowsOf(rows, w) |-> rows[id]],
     history |-> SelectSeq(trades, LAMBDA r : r.wallet_id = w)]

\* the variables of the engine of one tenant, which an operation on the tables
\* does not touch
engine_vars_but_analysis == <<impl, trading_params, ledger_vars, loop_vars, close_request,
                             opened, requests, last_op>>
engine_vars == <<engine_vars_but_analysis, analysis>>

strategy_vars == <<strategy_managers, custom_dir, loader>>
table_vars == <<wallets, position_rows, trade_rows>>

\* an operation of a tenant is counted
TableStep ==
    /\ tenant_ops < MaxTenantOps
    /\ tenant_ops' = tenant_ops + 1
    /\ UNCHANGED engine_vars

\* the signals for which a tenant's loop opens a position
TenantSignals == {sig \in UserSignals : UserSignalApproved(sig)}

\* UserWalletManager(w).open_position: refused on an insufficient balance; the
\* insert fails on a position_id already in the table and is rolled back
TenantOpenPosition(w) ==
    /\ TableStep
    /\ \E id \in RowIds, sig \in TenantSignals, dbok \in BOOLEAN :
         LET pos == PositionFor(TradingPairs[1], sig, wallets[w].balance)
             ok  == /\ ~InsufficientBalance(wallets[w].balance, pos.margin)
                    /\ id \notin DOMAIN position_rows
                    /\ dbok
         IN  /\ wallets' = IF ok
                           THEN [wallets EXCEPT
                                   ![w].balance = BalanceAfterOpen(@, pos.margin),
                                   ![w].locked_margin = LockedAfterOpen(@, pos.margin)]
                           ELSE wallets
             /\ position_rows' = IF ok
                                 THEN With(position_rows, id,
                                           [wallet_id |-> w, is_open |-> TRUE, pos |-> pos])
                                 ELSE position_rows
             /\ trade_rows' = trade_rows
             /\ tenant_op' = TenantOp(w, "open", id, ok)
    /\ UNCHANGED <<strategy_vars, closing>>

\* UserWalletManager(w).update_position_price
TenantUpdatePrice(w) ==
    /\ TableStep
    /\ \E id \in RowIds, current_price \in MarketPrices \ {0} :
         /\ position_rows' = IF OpenRow(position_rows, w, id)
                             THEN [position_rows EXCEPT
                                     ![id].pos = UpdatedPosition(@, current_price)]
                             ELSE position_rows
         /\ UNCHANGED <<wallets, trade_rows>>
         /\ tenant_op' = TenantOp(w, "update", id, OpenRow(position_rows, w, id))
    /\ UNCHANGED <<strategy_vars, closing>>

\* UserWalletManager(w).close_position at one of the prices
TenantClosePositionAt(w, prices) ==
    /\ TableStep
    /\ \E id \in RowIds, close_price \in prices, dbok \in BOOLEAN :
         IF OpenRow(position_rows, w, id) /\ dbok
         THEN LET p   == position_rows[id].pos
                  pnl == CalcPnl(p.side, p.entry_price, close_price, p.size)
              IN  /\ wallets' = [wallets EXCEPT
                       ![w].locked_margin = LockedAfterClose(@, p.margin),
                       ![w].balance = BalanceAfterClose(@, p.margin, pnl),
                       ![w].total_pnl = TotalPnlAfterClose(@, pnl),
                       ![w].total_trades = @ + 1,
                       ![w].winning_trades = @ + (IF IsWinningTrade(pnl) THEN 1 ELSE 0),
                       ![w].losing_trades = @ + (IF IsWinningTrade(pnl) THEN 0 ELSE 1)]
                  /\ trade_rows' = Append(trade_rows,
                                          [wallet_id |-> w, pair |-> p.pair, pnl |-> pnl])
                  /\ position_rows' = [position_rows EXCEPT
                                         ![id].is_open = FALSE,
                                         ![id].pos = UpdatedPosition(@, close_price)]
                  /\ tenant_op' = TenantOp(w, "close", id, TRUE)
         ELSE /\ UNCHANGED <<wallets, position_rows, trade_rows>>
              /\ tenant_op' = TenantOp(w, "close", id, FALSE)
    /\ UNCHANGED <<strategy_vars, closing>>

\* UserWalletManager(w).close_position at the price the caller has fetched
TenantClosePosition(w) == TenantClosePositionAt(w, MarketPrices \ {0})

\* UserWalletManager(w).reset: the tenant's position and trade rows are deleted
\* and its wallet row is set back
TenantReset(w) ==
    /\ TableStep
    /\ \E init \in ResetBalances, dbok \in BOOLEAN :
         /\ IF dbok
            THEN /\ position_rows' = [id \in (DOMAIN position_rows) \ RowsOf(position_rows, w)
                                        |-> position_rows[id]]
                 /\ trade_rows' = SelectSeq(trade_rows, LAMBDA r : r.wallet_id # w)
                 /\ wallets' = [wallets EXCEPT ![w] = NewWallet(init)]
            ELSE UNCHANGED <<wallets, position_rows, trade_rows>>
         /\ tenant_op' = TenantOp(w, "reset", None, dbok)
    /\ UNCHANGED <<strategy_vars, closing>>

----------------------------------------------------------------------------
(* StrategyManager registry (strategies/strategy_manager.py) and the       *)
(* strategy routes of app.py                                               *)

\* built-in strategies registered by every manager (two of the five)
BuiltinStrategies == {"combined", "macd"}

\* ids of the custom strategies a tenant may upload
CustomStrategyIds == {"custom1"}

\* the key of the manager of "legacy code that doesn't pass user_id"
LegacyUser == "0"

\* UserStrategyManager.__init__: the built-in strategies with "combined" active,
\* and every strategy of the custom directory
NewStrategyManager(dir) ==
    [strategies |-> BuiltinStrategies \cup dir, active |-> "combined"]

\* get_strategy_manager(user_id): the key of the manager it returns
ManagerKey(ms, user_id) ==
    IF user_id # None THEN user_id
    ELSE IF Cardinality(DOMAIN ms) = 1 THEN CHOOSE k \in DOMAIN ms : TRUE
    ELSE LegacyUser

\* get_user_strategy_manager: the registry after the manager was got or created
WithManager(ms, k, dir) ==
    IF k \in DOMAIN ms THEN ms ELSE With(ms, k, NewStrategyManager(dir))

\* the user id the strategy routes and SignalGenerator.__init__ pass to
\* get_strategy_manager on behalf of tenant w: none
RouteUserId(w) == None

\* the active strategy and the registered strategies tenant w is served with
StrategyOf(ms, dir, w) ==
    LET k == ManagerKey(ms, RouteUserId(w))
    IN  WithManager(ms, k, dir)[k]

\* set_active_strategy route, called by tenant w
SetActiveStrategy(w) ==
    /\ TableStep
    /\ \E strategy_id \in BuiltinStrategies \cup CustomStrategyIds :
         LET k  == ManagerKey(strategy_managers, RouteUserId(w))
             ms == WithManager(strategy_managers, k, custom_dir \ loader.broken)
             ok == strategy_id \in ms[k].strategies
         IN  /\ strategy_managers' = IF ok THEN [ms EXCEPT ![k].active = strategy_id] ELSE ms
             /\ tenant_op' = TenantOp(w, "set_strategy", strategy_id, ok)
    /\ UNCHANGED <<table_vars, custom_dir, loader, closing>>

\* what validate_strategy_code and load_strategy_from_file see in a submitted
\* file: it parses; an import of a module of DISALLOWED_IMPORTS; a call of eval,
\* exec, compile or __import__ by its plain name or through an attribute
\* (builtins.eval(...)); the number of classes with the base BaseStrategy; the
\* class is a statement of the module body; it lacks one of analyze,
\* get_required_timeframes, get_required_indicators; exec_module runs and a
\* strategy class is found among the module's members
Submissions ==
    [syntax_ok : BOOLEAN, forbidden_import : BOOLEAN,
     forbidden_call : {"none", "by_name", "by_attribute"},
     strategy_classes : {0, 1, 2}, toplevel : BOOLEAN, missing_methods : BOOLEAN,
     loads : BOOLEAN]

\* a file with one complete strategy class and nothing forbidden
GoodSubmission ==
    [syntax_ok |-> TRUE, forbidden_import |-> FALSE, forbidden_call |-> "none",
     strategy_classes |-> 1, toplevel |-> TRUE, missing_methods |-> FALSE, loads |-> TRUE]

\* the outcome of the last upload: the submission, whether validate_strategy_code
\* accepted it and whether load_strategy_from_file returned its class
UploadOutcome(strategy_id, s, accepted, loaded) ==
    [id |-> strategy_id, submission |-> s, accepted |-> accepted, loaded |-> loaded]

\* CustomStrategyLoader.__init__: nothing loaded; sys.modules holds no custom
\* module, table CustomStrategy no row, no file of the directory fails to load
NewLoader ==
    [loaded_strategies |-> {}, modules |-> {}, rows |-> {}, broken |-> {},
     last |-> UploadOutcome(None, GoodSubmission, FALSE, FALSE)]

\* CustomStrategyLoader.validate_strategy_code
ValidateStrategyCode(s) ==
    /\ s.syntax_ok
    /\ ~s.forbidden_import
    /\ s.forbidden_call # "by_name"
    /\ s.strategy_classes = 1
    /\ s.toplevel => ~s.missing_methods

\* upload_custom_strategy route, called by tenant w with file s under the name
\* strategy_id: the code is validated; an accepted file is saved in the custom
\* directory and recorded in table CustomStrategy, then load_strategy_from_file
\* enters the module in sys.modules and executes it, and the class it returns is
\* registered with the manager
UploadSubmission(w, strategy_id, s) ==
    /\ TableStep
    /\ LET accepted == ValidateStrategyCode(s)
           loaded   == accepted /\ s.loads
           k  == ManagerKey(strategy_managers, RouteUserId(w))
           ms == WithManager(strategy_managers, k, custom_dir \ loader.broken)
       IN  /\ custom_dir' = IF accepted THEN custom_dir \cup {strategy_id} ELSE custom_dir
           /\ loader' =
                 IF ~accepted
                 THEN [loader EXCEPT !.last = UploadOutcome(strategy_id, s, FALSE, FALSE)]
                 ELSE [loaded_strategies |-> IF loaded
                                             THEN loader.loaded_strategies \cup {strategy_id}
                                             ELSE loader.loaded_strategies,
                       modules |-> loader.modules \cup {strategy_id},
                       rows    |-> loader.rows \cup {<<w, strategy_id>>},
                       broken  |-> IF loaded THEN loader.broken \ {strategy_id}
                                   ELSE loader.broken \cup {strategy_id},
                       last    |-> UploadOutcome(strategy_id, s, TRUE, loaded)]
           /\ strategy_managers' =
                 IF loaded THEN [ms EXCEPT ![k].strategies = @ \cup {strategy_id}]
                 ELSE strategy_managers
           /\ tenant_op' = TenantOp(w, "upload_strategy", strategy_id, loaded)
    /\ UNCHANGED <<table_vars, closing>>

\* upload_custom_strategy route, called by tenant w with a good file
UploadCustomStrategy(w) ==
    \E strategy_id \in CustomStrategyIds : UploadSubmission(w, strategy_id, GoodSubmission)

\* files are uploaded among the first MaxUploads requests of the tenants
MaxUploads == 2

\* upload_custom_strategy route, called by tenant w with any file
UploadAnyStrategy(w) ==
    /\ tenant_ops < MaxUploads
    /\ \E strategy_id \in CustomStrategyIds, s \in Submissions :
          UploadSubmission(w, strategy_id, s)

----------------------------------------------------------------------------
(* Initial state: a wallet as __init__ / _get_or_create_wallet creates it, *)
(* no loop started                                                         *)

\* no signal is waiting for its order
NoPending == [pair |-> None, sig |-> StrategySignal("flat", 0, 0, 0), balance |-> 0]

\* no strategy has been given data
NoAnalysis == [kind |-> None]

\* TRADING_PARAMS as config.py has it
DefaultTradingParams == [enable_long |-> enable_long, enable_short |-> enable_short]

\* the state after construction, under the side switches params
InitWith(params) ==
    /\ impl \in {"sim", "user"}
    /\ trading_params = params
    /\ analysis = NoAnalysis
    /\ balance = simulated_balance
    /\ initial_balance = simulated_balance
    /\ locked_margin = 0
    /\ total_pnl = 0
    /\ total_trades = 0
    /\ winning_trades = 0
    /\ losing_trades = 0
    /\ positions = NoPositions
    /\ closed_ids = {}
    /\ trade_history = <<>>
    /\ pc = [t \in Threads |-> "idle"]
    /\ is_running = FALSE
    /\ stop_requested = FALSE
    /\ stop_issued = FALSE
    /\ tick_critical = [t \in Threads |-> FALSE]
    /\ to_manage = <<>>
    /\ scan_idx = [t \in Threads |-> 1]
    /\ pending = [t \in Threads |-> NoPending]
    /\ close_request = None
    /\ opened = 0
    /\ requests = 0
    /\ last_op = NoOp
    /\ wallets = [w \in Tenants |-> NewWallet(simulated_balance)]
    /\ position_rows = NoPositions
    /\ trade_rows = <<>>
    /\ tenant_op = TenantOp(None, "none", None, FALSE)
    /\ tenant_ops = 0
    /\ strategy_managers = NoPositions
    /\ custom_dir = {}
    /\ loader = NewLoader
    /\ closing = [c \in Closers |-> NoClosing]

Init == InitWith(DefaultTradingParams)

\* get_balance_health: utilization = used_margin / total_balance * 100, and the
\* status is critical above critical_utilization_percent
CriticalUtilization(bal, locked) ==
    locked * 100 > critical_utilization_percent * (bal + locked)

\* thread t is inside a tick
InTick(t) == pc[t] \in {"monitor", "scan", "open"}

\* thread t is between its start and its end
Alive(t) == pc[t] \notin {"idle", "stopped"}

\* (variant: the exception ends the loop)
AfterCycleException_Fatal == "stopped"

\* where an exception raised inside a tick leaves the loop: it is caught and
\* logged, and the loop goes on to its wait
AfterCycleException == "wait"

\* where the loop goes after the symbol at idx
AfterPair(idx) == IF idx >= Len(TradingPairs) THEN "wait" ELSE "scan"

\* (variant: the scan stays on the symbol it has just handled)
NextIdx_Same(idx) == idx

\* the for loop over trading_pairs: the index of the next symbol
NextIdx(idx) == IF idx >= Len(TradingPairs) THEN idx ELSE idx + 1

----------------------------------------------------------------------------
(* TradingBot: the loop of the "sim" deployment, in thread "t1"            *)

\* TradingBot.start: is_running = True, then the loop
Start ==
    /\ impl = "sim"
    /\ pc["t1"] = "idle"
    /\ is_running' = TRUE
    /\ pc' = [pc EXCEPT !["t1"] = "top"]
    /\ last_op' = NoOp
    /\ UNCHANGED <<impl, trading_params, analysis, tenant_vars, ledger_vars, stop_requested, stop_issued, tick_critical, to_manage, scan_idx, pending,
                   close_request, opened, requests>>

\* _trading_cycle up to the monitoring of positions: the snapshot of the open
\* positions (_monitor_and_manage_positions, _monitor_positions_only)
TradingCycleBegin ==
    /\ impl = "sim"
    /\ pc["t1"] = "top"
    /\ to_manage' = PositionsSnapshot
    /\ pc' = [pc EXCEPT !["t1"] = "monitor"]
    /\ tick_critical' = [tick_critical EXCEPT !["t1"] = FALSE]
    /\ last_op' = NoOp
    /\ UNCHANGED <<impl, trading_params, analysis, tenant_vars, ledger_vars, is_running, stop_requested, stop_issued, scan_idx, pending,
                   close_request, opened, requests>>

\* the position after the trailing-stop step of _manage_single_position: the
\* dict is the wallet's own, so the new stop is written to the ledger's position
WithTrailingStop(p, current_price) ==
    IF UpdateTrailingStop(p, current_price) # 0
    THEN [p EXCEPT !.stop_loss = UpdateTrailingStop(p, current_price)]
    ELSE p

\* _manage_single_position for the next position of the snapshot, with the
\* latest price drawn from prices and the signal from signals
ManagePositionAt(prices, signals) ==
    /\ impl = "sim"
    /\ pc["t1"] = "monitor"
    /\ to_manage # <<>>
    /\ LET id == Head(to_manage)
       IN  \E current_price \in prices, sig \in signals :
             IF PriceUnavailable(current_price)
             THEN /\ UNCHANGED ledger_vars
                  /\ last_op' = Op("no_price", id, FALSE, 0, 0)
             ELSE IF ~PositionFound(id)
             THEN /\ UNCHANGED ledger_vars
                  /\ last_op' = NoOp
             ELSE LET p == UpdatedPosition(positions[id], current_price)
                      hit == CheckTpSlHit(p, current_price)
                  IN  IF hit # None
                      THEN /\ WalletClosePosition(id, current_price,
                                   IF hit = "TP" THEN "TP reached" ELSE "SL reached", TRUE)
                           /\ last_op' = Op("close", id, TRUE, p.margin, ClosePnl(id, current_price))
                      ELSE IF ShouldClosePosition(p, sig)
                      THEN /\ WalletClosePosition(id, current_price, "Signal reversal", TRUE)
                           /\ last_op' = Op("close", id, TRUE, p.margin, ClosePnl(id, current_price))
                      ELSE /\ positions' = [positions EXCEPT ![id] = WithTrailingStop(p, current_price)]
                           /\ UNCHANGED <<wallet_vars, closed_ids, trade_history>>
                           /\ last_op' = Op("monitor", id, TRUE, p.margin, 0)
    /\ to_manage' = Tail(to_manage)
    /\ UNCHANGED <<impl, trading_params, analysis, tenant_vars, pc, is_running, stop_requested, stop_issued, tick_critical, scan_idx, pending,
                   close_request, opened, requests>>

\* _manage_single_position under the prices and signals of the deployment
ManageSinglePosition == ManagePositionAt(MarketPrices, SimSignals)

\* an exception inside _manage_single_position is caught there: the position is skipped
ManageException ==
    /\ impl = "sim"
    /\ pc["t1"] = "monitor"
    /\ to_manage # <<>>
    /\ to_manage' = Tail(to_manage)
    /\ last_op' = Op("exception", None, FALSE, 0, 0)
    /\ UNCHANGED <<impl, trading_params, analysis, tenant_vars, ledger_vars, pc, is_running, stop_requested, stop_issued, tick_critical, scan_idx,
                   pending, close_request, opened, requests>>

\* _trading_cycle after the monitoring.  With a critical balance health the
\* cycle was monitor-only and returns (the health is that of the exchange
\* wallet, an input read at the head of the cycle; nothing else depends on it,
\* so it is drawn here).  Otherwise the position count is compared with
\* max_open_positions once, and the scan starts.
CheckCapacity ==
    /\ impl = "sim"
    /\ pc["t1"] = "monitor"
    /\ to_manage = <<>>
    /\ \E health \in {"healthy", "critical"} :
          /\ pc' = [pc EXCEPT !["t1"] =
                       IF health = "critical" \/ OpenPositionsCount >= max_open_positions
                       THEN "wait" ELSE "scan"]
          /\ tick_critical' = [tick_critical EXCEPT !["t1"] = (health = "critical")]
    /\ scan_idx' = [scan_idx EXCEPT !["t1"] = 1]
    /\ last_op' = NoOp
    /\ UNCHANGED <<impl, trading_params, analysis, tenant_vars, ledger_vars, is_running, stop_requested, stop_issued, to_manage, pending,
                   close_request, opened, requests>>

\* what _evaluate_signal and _execute_trade hand on to open_position_with_tp_sl:
\* pair, side, strength and current_price; the signal's ATR is not passed
ExecutedSignal(sig) == [sig EXCEPT !.atr = 0]

\* _scan_for_signals for one symbol: has_position_for_pair, generate_signal,
\* _evaluate_signal, _execute_trade, open_position_with_tp_sl
ScanPairFrom(signals, ids) ==
    /\ impl = "sim"
    /\ pc["t1"] = "scan"
    /\ LET pair == TradingPairs[scan_idx["t1"]]
       IN  \E sig \in signals, id \in ids, submitted \in BOOLEAN :
             IF HasPositionForPair(pair)
             THEN /\ UNCHANGED <<ledger_vars, opened>>
                  /\ last_op' = Op("skip_pair", None, FALSE, 0, 0)
             ELSE IF ~SignalApproved(sig) \/ balance <= 0 \/ opened >= MaxOpened
             THEN /\ UNCHANGED <<ledger_vars, opened>>
                  /\ last_op' = NoOp
             ELSE OpenPositionWithTpSl(pair, ExecutedSignal(sig), balance, id, submitted, TRUE)
    /\ pc' = [pc EXCEPT !["t1"] = AfterPair(scan_idx["t1"])]
    /\ scan_idx' = [scan_idx EXCEPT !["t1"] = NextIdx(@)]
    /\ UNCHANGED <<impl, trading_params, analysis, tenant_vars, is_running, stop_requested, stop_issued, tick_critical, to_manage, pending,
                   close_request, requests>>

\* _scan_for_signals for one symbol, the order's id being a new one
ScanPairWith(signals) == ScanPairFrom(signals, CandidateIds)

\* _scan_for_signals under the signals of the deployment
ScanPair == ScanPairWith(SimSignals)

\* an exception in the scan (generate_signal) is caught by _scan_for_signals: the
\* rest of the scan is abandoned and the tick ends
ScanException ==
    /\ impl = "sim"
    /\ pc["t1"] = "scan"
    /\ pc' = [pc EXCEPT !["t1"] = AfterCycleException]
    /\ last_op' = Op("exception", None, FALSE, 0, 0)
    /\ UNCHANGED <<impl, trading_params, analysis, tenant_vars, ledger_vars, is_running, stop_requested, stop_issued, tick_critical, to_manage, scan_idx,
                   pending, close_request, opened, requests>>

\* time.sleep(signal_scan_interval) / _stop_event.wait(timeout=scan_interval)
Wait(t) ==
    /\ pc[t] = "wait"
    /\ pc' = [pc EXCEPT ![t] = "top"]
    /\ last_op' = NoOp
    /\ UNCHANGED <<impl, trading_params, analysis, tenant_vars, ledger_vars, is_running, stop_requested, stop_issued, tick_critical, to_manage, scan_idx,
                   pending, close_request, opened, requests>>

\* the explicit stop of TradingBot: KeyboardInterrupt ends the loop where it is,
\* stop() clears is_running
Interrupt ==
    /\ impl = "sim"
    /\ Alive("t1")
    /\ stop_requested' = TRUE
    /\ stop_issued' = TRUE
    /\ is_running' = FALSE
    /\ pc' = [pc EXCEPT !["t1"] = "stopped"]
    /\ to_manage' = <<>>
    /\ last_op' = NoOp
    /\ UNCHANGED <<impl, trading_params, analysis, tenant_vars, ledger_vars, tick_critical, scan_idx, pending,
                   close_request, opened, requests>>

----------------------------------------------------------------------------
(* UserTradingBot: the loop of the "user" deployment.  Its cycle scans the *)
(* symbols and opens positions; it does not monitor open positions.        *)

\* UserOrderManager.open_position_with_tp_sl: the order path of the user deployment
UserOpenPositionWithTpSl(pair, sig, bal, id, submitted, dbok) ==
    OpenPositionWithTpSl(pair, sig, bal, id, submitted, dbok)

\* UserTradingBot.start: refused while is_running; otherwise the stop event is
\* cleared and a thread is created for _run_loop
UserStart(t) ==
    /\ impl = "user"
    /\ ~is_running
    /\ ~Alive(t)
    /\ stop_requested' = FALSE
    /\ stop_issued' = FALSE
    /\ pc' = [pc EXCEPT ![t] = "init"]
    /\ last_op' = NoOp
    /\ UNCHANGED <<impl, trading_params, analysis, tenant_vars, ledger_vars, is_running, tick_critical, to_manage,
                   scan_idx, pending, close_request, opened, requests>>

\* _run_loop: _initialize_components, then is_running = True
RunLoopInit(t) ==
    /\ impl = "user"
    /\ pc[t] = "init"
    /\ is_running' = TRUE
    /\ pc' = [pc EXCEPT ![t] = "top"]
    /\ last_op' = NoOp
    /\ UNCHANGED <<impl, trading_params, analysis, tenant_vars, ledger_vars, stop_requested, stop_issued, tick_critical, to_manage, scan_idx, pending,
                   close_request, opened, requests>>

\* _run_loop: "while not self._stop_event.is_set()" is true, _trading_cycle begins
UserCycleBegin(t) ==
    /\ impl = "user"
    /\ pc[t] = "top"
    /\ ~stop_requested
    /\ pc' = [pc EXCEPT ![t] = "scan"]
    /\ scan_idx' = [scan_idx EXCEPT ![t] = 1]
    /\ tick_critical' = [tick_critical EXCEPT ![t] = CriticalUtilization(balance, locked_margin)]
    /\ last_op' = NoOp
    /\ UNCHANGED <<impl, trading_params, analysis, tenant_vars, ledger_vars, is_running, stop_requested, stop_issued, to_manage, pending,
                   close_request, opened, requests>>

\* _run_loop: the stop event is set, the loop ends; finally: is_running = False
UserLoopExit(t) ==
    /\ impl = "user"
    /\ pc[t] = "top"
    /\ stop_requested
    /\ pc' = [pc EXCEPT ![t] = "stopped"]
    /\ is_running' = FALSE
    /\ last_op' = NoOp
    /\ UNCHANGED <<impl, trading_params, analysis, tenant_vars, ledger_vars, stop_requested, stop_issued, tick_critical, to_manage, scan_idx,
                   pending, close_request, opened, requests>>

\* _process_signal up to the balance read: the checks that stop a signal
ProcessSignalBlocked(pair) ==
    \/ HasPositionForPair(pair)
    \/ OpenPositionsCount >= max_open_positions
    \/ balance <= 0

\* _trading_cycle for one symbol: stop check, generate_signal, strength floor,
\* and _process_signal up to the balance it reads
UserScanPairFrom(t, signals) ==
    /\ impl = "user"
    /\ pc[t] = "scan"
    /\ LET pair == TradingPairs[scan_idx[t]]
       IN  \E sig \in signals, have_signal \in BOOLEAN :
             IF stop_requested
             THEN /\ pc' = [pc EXCEPT ![t] = "wait"]
                  /\ UNCHANGED <<scan_idx, pending>>
                  /\ last_op' = NoOp
             ELSE IF ~have_signal \/ ~UserSignalApproved(sig)
             THEN /\ pc' = [pc EXCEPT ![t] = AfterPair(scan_idx[t])]
                  /\ scan_idx' = [scan_idx EXCEPT ![t] = NextIdx(@)]
                  /\ UNCHANGED pending
                  /\ last_op' = NoOp
             ELSE IF ProcessSignalBlocked(pair) \/ opened >= MaxOpened
             THEN /\ pc' = [pc EXCEPT ![t] = AfterPair(scan_idx[t])]
                  /\ scan_idx' = [scan_idx EXCEPT ![t] = NextIdx(@)]
                  /\ UNCHANGED pending
                  /\ last_op' = IF HasPositionForPair(pair)
                                THEN Op("skip_pair", None, FALSE, 0, 0) ELSE NoOp
             ELSE /\ pc' = [pc EXCEPT ![t] = "open"]
                  /\ pending' = [pending EXCEPT ![t] =
                                    [pair |-> pair, sig |-> sig, balance |-> balance]]
                  /\ UNCHANGED scan_idx
                  /\ last_op' = NoOp
    /\ UNCHANGED <<impl, trading_params, analysis, tenant_vars, ledger_vars, is_running, stop_requested, stop_issued, tick_critical, to_manage,
                   close_request, opened, requests>>

\* the symbol's step with the signals of the tenant's strategy
UserScanPair(t) == UserScanPairFrom(t, UserSignals)

\* _process_signal from the ATR lookup on: open_position_with_tp_sl with the
\* balance read before
UserOpenPosition(t) ==
    /\ impl = "user"
    /\ pc[t] = "open"
    /\ \E id \in CandidateIds, submitted \in BOOLEAN, dbok \in BOOLEAN :
          UserOpenPositionWithTpSl(pending[t].pair, pending[t].sig, pending[t].balance,
                                   id, submitted, dbok)
    /\ pending' = [pending EXCEPT ![t] = NoPending]
    /\ pc' = [pc EXCEPT ![t] = AfterPair(scan_idx[t])]
    /\ scan_idx' = [scan_idx EXCEPT ![t] = NextIdx(@)]
    /\ UNCHANGED <<impl, trading_params, analysis, tenant_vars, is_running, stop_requested, stop_issued, tick_critical, to_manage, close_request, requests>>

\* an exception while a symbol is processed is caught in the per-symbol handler:
\* the cycle goes on with the next symbol
UserPairException(t) ==
    /\ impl = "user"
    /\ pc[t] \in {"scan", "open"}
    /\ pending' = [pending EXCEPT ![t] = NoPending]
    /\ pc' = [pc EXCEPT ![t] = AfterPair(scan_idx[t])]
    /\ scan_idx' = [scan_idx EXCEPT ![t] = NextIdx(@)]
    /\ last_op' = Op("exception", None, FALSE, 0, 0)
    /\ UNCHANGED <<impl, trading_params, analysis, tenant_vars, ledger_vars, is_running, stop_requested, stop_issued, tick_critical, to_manage,
                   close_request, opened, requests>>

\* an exception outside the per-symbol handler (update_cycle) is caught in _run_loop
UserCycleException(t) ==
    /\ impl = "user"
    /\ pc[t] = "scan"
    /\ pc' = [pc EXCEPT ![t] = AfterCycleException]
    /\ last_op' = Op("exception", None, FALSE, 0, 0)
    /\ UNCHANGED <<impl, trading_params, analysis, tenant_vars, ledger_vars, is_running, stop_requested, stop_issued, tick_critical, to_manage, scan_idx,
                   pending, close_request, opened, requests>>

\* UserTradingBot.stop while is_running: sets the stop event, joins the thread
\* for at most 10 s, then clears is_running
UserStop ==
    /\ impl = "user"
    /\ is_running
    /\ stop_requested' = TRUE
    /\ stop_issued' = TRUE
    /\ is_running' = FALSE
    /\ last_op' = NoOp
    /\ UNCHANGED <<impl, trading_params, analysis, tenant_vars, ledger_vars, pc, tick_critical, to_manage, scan_idx,
                   pending, close_request, opened, requests>>

\* UserTradingBot.stop while is_running is not set, with a loop thread started:
\* "Bot is not running", the call returns and the stop event is not set
UserStopIgnored ==
    /\ impl = "user"
    /\ ~is_running
    /\ \E t \in Threads : Alive(t)
    /\ stop_issued' = TRUE
    /\ last_op' = Op("stop_ignored", None, FALSE, 0, 0)
    /\ UNCHANGED <<impl, trading_params, analysis, tenant_vars, ledger_vars, pc, is_running, stop_requested,
                   tick_critical, to_manage, scan_idx, pending, close_request, opened,
                   requests>>

----------------------------------------------------------------------------
(* Dashboard routes of app.py, called from request threads ("user")        *)

\* get_positions: update_position_price for an open position whose price is known
DashboardUpdatePrice ==
    /\ impl = "user"
    /\ requests < MaxRequests
    /\ requests' = requests + 1
    /\ \E id \in DOMAIN positions, current_price \in MarketPrices \ {0} :
          /\ WalletUpdatePositionPrice(id, current_price)
          /\ last_op' = Op("update", id, TRUE, positions[id].margin, 0)
    /\ UNCHANGED <<impl, trading_params, analysis, tenant_vars, loop_vars, close_request, opened>>

\* close_position route, first half: get_position finds the position
ManualCloseBegin ==
    /\ impl = "user"
    /\ requests < MaxRequests
    /\ requests' = requests + 1
    /\ close_request = None
    /\ \E id \in DOMAIN positions : close_request' = id
    /\ last_op' = NoOp
    /\ UNCHANGED <<impl, trading_params, analysis, tenant_vars, ledger_vars, loop_vars, opened>>

\* close_position route, second half: the price is fetched (0: error response)
\* and the ledger's close_position is called
ManualCloseFinish ==
    /\ impl = "user"
    /\ close_request # None
    /\ \E current_price \in MarketPrices, dbok \in BOOLEAN :
          IF PriceUnavailable(current_price)
          THEN /\ UNCHANGED ledger_vars
               /\ last_op' = Op("no_price", close_request, FALSE, 0, 0)
          ELSE /\ WalletClosePosition(close_request, current_price,
                                      "Manual close via dashboard", dbok)
               /\ last_op' = Op("close", close_request, CloseSucceeds(close_request, dbok),
                                IF PositionFound(close_request)
                                THEN positions[close_request].margin ELSE 0,
                                IF PositionFound(close_request)
                                THEN ClosePnl(close_request, current_price) ELSE 0)
    /\ close_request' = None
    /\ UNCHANGED <<impl, trading_params, analysis, tenant_vars, loop_vars, opened, requests>>

\* close_position route, run to its end for a close that was submitted twice:
\* the second request closes the position while the first is in flight
ManualClose ==
    /\ impl = "user"
    /\ close_request # None
    /\ PositionFound(close_request)
    /\ \E current_price \in MarketPrices \ {0} :
          /\ WalletClosePosition(close_request, current_price, "Manual close via dashboard", TRUE)
          /\ last_op' = Op("close", close_request, TRUE, positions[close_request].margin,
                           ClosePnl(close_request, current_price))
    /\ UNCHANGED <<impl, trading_params, analysis, tenant_vars, loop_vars, close_request, opened, requests>>

\* reset_simulated_wallet: reset(initial_balance) with the profile's
\* simulated_balance; a failed commit is rolled back
ResetWallet ==
    /\ impl = "user"
    /\ requests < MaxRequests
    /\ requests' = requests + 1
    /\ \E init \in ResetBalances, dbok \in BOOLEAN :
          /\ IF dbok THEN WalletReset(init) ELSE UNCHANGED ledger_vars
          /\ last_op' = Op("reset", None, dbok, 0, 0)
    /\ UNCHANGED <<impl, trading_params, analysis, tenant_vars, loop_vars, close_request, opened>>

----------------------------------------------------------------------------
(* Specifications *)

\* a step of the loop thread itself: what the scheduler runs without any input
\* from outside (no exception, no stop, no request)
LoopStep ==
    \/ TradingCycleBegin
    \/ ManageSinglePosition
    \/ CheckCapacity
    \/ ScanPair
    \/ Wait("t1")
    \/ RunLoopInit("t1")
    \/ UserCycleBegin("t1")
    \/ UserLoopExit("t1")
    \/ UserScanPair("t1")
    \/ UserOpenPosition("t1")

\* one loop per tenant, with the dashboard
Next ==
    \/ Start
    \/ TradingCycleBegin
    \/ ManageSinglePosition
    \/ ManageException
    \/ CheckCapacity
    \/ ScanPair
    \/ ScanException
    \/ Wait("t1")
    \/ Interrupt
    \/ UserStart("t1")
    \/ RunLoopInit("t1")
    \/ UserCycleBegin("t1")
    \/ UserLoopExit("t1")
    \/ UserScanPair("t1")
    \/ UserOpenPosition("t1")
    \/ UserPairException("t1")
    \/ UserCycleException("t1")
    \/ UserStop
    \/ UserStopIgnored
    \/ DashboardUpdatePrice
    \/ ManualCloseBegin
    \/ ManualCloseFinish
    \/ ManualClose
    \/ ResetWallet

Spec == Init /\ [][Next]_vars

\* the same, with the loop thread scheduled: a started thread keeps running
LiveSpec == Init /\ [][Next]_vars /\ WF_vars(LoopStep)

\* the "user" deployment under any interleaving of start and stop requests:
\* every start that is not refused creates a thread (start called again before
\* _run_loop has set is_running, or after a stop whose thread is still alive)
RaceInit == Init /\ impl = "user"

RaceNext ==
    \/ \E t \in Threads :
          \/ UserStart(t)
          \/ RunLoopInit(t)
          \/ UserCycleBegin(t)
          \/ UserLoopExit(t)
          \/ UserScanPair(t)
          \/ UserOpenPosition(t)
          \/ Wait(t)
    \/ UserStop
    \/ UserStopIgnored

RaceSpec == RaceInit /\ [][RaceNext]_vars

\* the wallet managers of all tenants at work on the shared tables, and the
\* tenants' requests to the strategy routes, in any order
TenantInit == Init /\ impl = "user"

TenantNext ==
    \E w \in Tenants :
        \/ TenantOpenPosition(w)
        \/ TenantUpdatePrice(w)
        \/ TenantClosePosition(w)
        \/ TenantReset(w)
        \/ SetActiveStrategy(w)
        \/ UploadCustomStrategy(w)

TenantSpec == TenantInit /\ [][TenantNext]_vars

\* the tenants' requests to the strategy routes with any file, in any order
UploadNext ==
    \E w \in Tenants :
        \/ SetActiveStrategy(w)
        \/ UploadAnyStrategy(w)

UploadSpec == TenantInit /\ [][UploadNext]_vars

----------------------------------------------------------------------------
(* Properties of the ledger and of the loop *)

\* the last record of the trade history
LastRecord(h) == h[Len(h)]

\* two position records agree on every field outside those of ks
SameExcept(p, q, ks) == \A k \in (DOMAIN p) \ ks : p[k] = q[k]

\* C1, as stated: balance + locked_margin differs from initial_balance +
\* total_pnl by exactly the sum of the margins of the open positions (and the
\* two are equal when no position is open).
C1_DiffersBySumOfMargins ==
    LET d == (balance + locked_margin) - (initial_balance + total_pnl)
        m == SumMargins(DOMAIN positions)
    IN  d = m \/ d = -m

\* C1, amended: balance + locked_margin equals initial_balance + total_pnl in
\* every state, whether positions are open or not: an open moves the margin
\* from balance to locked_margin, a close moves it back and adds the realized
\* P&L to both balance and total_pnl.
C1_LedgerBalances ==
    balance + locked_margin = initial_balance + total_pnl

\* a position is open with its margin locked, after a close that realized a P&L
C1_Witness ==
    /\ DOMAIN positions # {}
    /\ SumMargins(DOMAIN positions) > 0
    /\ total_pnl # 0

\* C2: a position is closed at most once.  A successful close acts on a
\* position of the open set, removes it and appends exactly one close record;
\* a close attempt on an id that is not in the open set (a later attempt on a
\* closed position) returns no result, and a close that returns no result
\* changes neither the wallet fields, the counters, the open set nor the history.
C2_ClosedAtMostOnce ==
    [][last_op'.op = "close" =>
          IF last_op'.ok
          THEN /\ last_op'.id \in DOMAIN positions
               /\ last_op'.id \notin DOMAIN positions'
               /\ Len(trade_history') = Len(trade_history) + 1
               /\ LastRecord(trade_history').type = "close"
               /\ impl = "user" => total_trades' = total_trades + 1
          ELSE UNCHANGED ledger_vars]_vars

\* a second close attempt on a position that was already closed returned no result
C2_Witness ==
    /\ last_op.op = "close"
    /\ ~last_op.ok
    /\ last_op.id \in closed_ids
    /\ last_op.id \notin DOMAIN positions

\* C3, as stated: the number of open positions never exceeds max_open_positions.
C3_AtMostMaxOpen ==
    OpenPositionsCount <= max_open_positions

\* the worked example of C4: long, entry 100, exit 110, size 2, margin 40
C4_Example ==
    /\ CalcPnl("long", 10000, 11000, 200) = 200000
    /\ BalanceAfterClose(0, 400000, CalcPnl("long", 10000, 11000, 200)) = 600000
    /\ LockedAfterClose(400000, 400000) = 0

\* C4: a successful open of a position with margin m takes m from balance and
\* adds m to locked_margin; a successful close of a position with margin m and
\* realized P&L p adds m + p to balance and takes m from locked_margin.
C4_OpenCloseDeltas ==
    [][/\ (last_op'.op = "open" /\ last_op'.ok) =>
              /\ positions'[last_op'.id].margin = last_op'.margin
              /\ balance' = balance - last_op'.margin
              /\ locked_margin' = locked_margin + last_op'.margin
       /\ (last_op'.op = "close" /\ last_op'.ok) =>
              /\ LastRecord(trade_history').pnl = last_op'.pnl
              /\ balance' = balance + positions[last_op'.id].margin + last_op'.pnl
              /\ locked_margin' = locked_margin - positions[last_op'.id].margin
       /\ C4_Example]_vars

\* a long position was closed with a gain: margin and P&L are back on the balance
C4_Witness ==
    /\ last_op.op = "close"
    /\ last_op.ok
    /\ last_op.margin > 0
    /\ last_op.pnl > 0
    /\ LastRecord(trade_history).reason = "TP reached"

\* C5: when the order submission fails, the open is aborted and the ledger
\* (wallet fields, open set, history) is left as it was.
C5_FailedOrderLeavesLedger ==
    [][last_op'.op = "order_failed" =>
          /\ ~last_op'.ok
          /\ UNCHANGED ledger_vars]_vars

\* an order failed for a position the balance would have covered
C5_Witness ==
    /\ last_op.op = "order_failed"
    /\ last_op.margin > 0
    /\ balance >= last_op.margin

\* C6: an open whose margin exceeds the available balance is refused without
\* any ledger change, and the loop goes on with the next symbol or its wait.
C6_InsufficientBalanceRefused ==
    [][(last_op'.op = "open" /\ balance < last_op'.margin) =>
          /\ ~last_op'.ok
          /\ UNCHANGED ledger_vars
          /\ \A t \in Threads : pc[t] \in {"scan", "open"} => pc'[t] \in {"scan", "wait"}]_vars

\* an open was refused for lack of balance and the loop is still in its cycle
C6_Witness ==
    /\ last_op.op = "open"
    /\ ~last_op.ok
    /\ balance < last_op.margin
    /\ pc["t1"] \in {"scan", "wait"}

\* C7, as stated: no two open positions are on the same pair.
C7_OnePositionPerPair ==
    \A i, j \in DOMAIN positions : positions[i].pair = positions[j].pair => i = j

\* C8, as stated: a price update, or a monitor tick that does not close the
\* position, changes only that position's current_price, pnl and pnl_percent.
C8_OnlyPriceFields ==
    [][last_op'.op \in {"update", "monitor"} =>
          /\ UNCHANGED <<wallet_vars, closed_ids, trade_history>>
          /\ DOMAIN positions' = DOMAIN positions
          /\ \A i \in DOMAIN positions : i # last_op'.id => positions'[i] = positions[i]
          /\ SameExcept(positions[last_op'.id], positions'[last_op'.id],
                        {"current_price", "pnl", "pnl_percent"})]_vars

\* C8, amended: update_position_price changes only that position's
\* current_price, pnl and pnl_percent; a monitor tick that does not close the
\* position changes these and, when the trailing stop moves, its stop_loss.
\* The wallet fields, the history and every other position are unchanged.
C8_PriceFieldsAndTrailingStop ==
    [][last_op'.op \in {"update", "monitor"} =>
          /\ UNCHANGED <<wallet_vars, closed_ids, trade_history>>
          /\ DOMAIN positions' = DOMAIN positions
          /\ \A i \in DOMAIN positions : i # last_op'.id => positions'[i] = positions[i]
          /\ SameExcept(positions[last_op'.id], positions'[last_op'.id],
                        IF last_op'.op = "update"
                        THEN {"current_price", "pnl", "pnl_percent"}
                        ELSE {"current_price", "pnl", "pnl_percent", "stop_loss"})]_vars

\* a monitor tick left a long position open at a gain, its stop trailed up
C8_Witness ==
    /\ last_op.op = "monitor"
    /\ last_op.id \in DOMAIN positions
    /\ positions[last_op.id].pnl > 0
    /\ positions[last_op.id].stop_loss > positions[last_op.id].entry_price

----------------------------------------------------------------------------
(* Cancellation and scheduling of the loop *)

\* thread t begins a tick in this step
TickBegins(t) == pc[t] = "top" /\ pc'[t] \in {"monitor", "scan"}

\* C11: once stop has been requested for a started loop, the loop begins no
\* further tick (the request is seen at the top of the next tick at the latest)
C11_StopHonored ==
    [][stop_issued => \A t \in Threads : ~TickBegins(t)]_vars

\* C12: two loop threads of the tenant are never inside a tick at the same time
C12_AtMostOneLoopInTick ==
    \A t, u \in Threads : (InTick(t) /\ InTick(u)) => t = u

\* a step of a loop thread: it moves the loop (its position, its scan index,
\* its snapshot of positions to monitor or its pending signal); the steps of
\* the request threads of the dashboard leave all of these alone
StepOfLoopThread == loop_vars' # loop_vars

\* C13: every step that changes the ledger (wallet fields, open positions,
\* closed positions, trade history) is a step of the tenant's loop thread
C13_OnlyLoopThreadWritesLedger ==
    [][ledger_vars' # ledger_vars => StepOfLoopThread]_vars

----------------------------------------------------------------------------
(* Isolation of tenants *)

\* C14: an operation of tenant a's wallet manager (open, price update, close,
\* reset) leaves the wallet row, the position rows and the trade rows of every
\* other tenant as they were
C14_OtherTenantsUnchanged ==
    [][\A a, b \in Tenants :
         (a # b /\ tenant_ops' # tenant_ops /\ tenant_op'.tenant = a)
         => TenantLedger(wallets', position_rows', trade_rows', b)
              = TenantLedger(wallets, position_rows, trade_rows, b)]_vars

\* tenant A has asked for the close of a position id that is an open position
\* of tenant B, after a reset of its own wallet beside B's open position
C14_Witness ==
    /\ tenant_op = TenantOp("A", "close", tenant_op.id, FALSE)
    /\ OpenRow(position_rows, "B", tenant_op.id)
    /\ wallets["A"].balance \in ResetBalances
    /\ wallets["B"].locked_margin > 0

\* C15: setting the active strategy or uploading a custom strategy on behalf
\* of tenant a changes neither the active strategy nor the registered
\* strategies that any other tenant b is served with
C15_StrategyNotShared ==
    [][\A a, b \in Tenants :
         (/\ a # b
          /\ tenant_ops' # tenant_ops
          /\ tenant_op'.tenant = a
          /\ tenant_op'.op \in {"set_strategy", "upload_strategy"})
         => StrategyOf(strategy_managers', custom_dir' \ loader'.broken, b)
              = StrategyOf(strategy_managers, custom_dir \ loader.broken, b)]_vars

----------------------------------------------------------------------------
(* The tick: monitoring, capacity, closing reasons, trailing stop *)

\* C16: in every tick the scan for new entries starts only after the monitor
\* has gone through the snapshot of the open positions (or with none open)
C16_MonitorBeforeEntries ==
    [][\A t \in Threads :
         (pc[t] \notin {"scan", "open"} /\ pc'[t] = "scan")
         => \/ pc[t] = "monitor" /\ to_manage = <<>>
            \/ OpenPositionsCount = 0]_vars

\* C17: in a tick whose balance utilization is critical no position is opened
C17_CriticalTickOpensNothing ==
    [][\A t \in Threads :
         (tick_critical[t] /\ InTick(t) /\ pc'[t] # pc[t])
         => ~(last_op'.op = "open" /\ last_op'.ok)]_vars

\* check_tp_sl_hit's conditions, on the fields of the position
TpOrSlCondition(p, price) ==
    \/ p.side = "long"  /\ p.take_profit > 0 /\ price >= p.take_profit
    \/ p.side = "long"  /\ p.stop_loss > 0   /\ price <= p.stop_loss
    \/ p.side = "short" /\ p.take_profit > 0 /\ price <= p.take_profit
    \/ p.side = "short" /\ p.stop_loss > 0   /\ price >= p.stop_loss

\* a step of the monitoring of the snapshot's next position
MonitorStep ==
    /\ pc["t1"] = "monitor"
    /\ to_manage # <<>>
    /\ to_manage' = Tail(to_manage)

\* the prices at which a close of p realizes pnl
PricesRealizing(p, pnl) ==
    {price \in MarketPrices : CalcPnl(p.side, p.entry_price, price, p.size) = pnl}

\* C18: a monitor step applies at most one close, with one reason, to the position
\* it manages; when the TP or SL condition holds at the tick's price the close
\* carries the TP/SL reason, and a signal-reversal close happens only when neither
\* condition holds
C18_OneCloseTpSlFirst ==
    [][(MonitorStep /\ Head(to_manage) \in DOMAIN positions) =>
         LET id == Head(to_manage)
             p  == positions[id]
         IN  IF id \notin DOMAIN positions'
             THEN /\ Len(trade_history') = Len(trade_history) + 1
                  /\ DOMAIN positions' = DOMAIN positions \ {id}
                  /\ LET rec == trade_history'[Len(trade_history')]
                     IN  /\ rec.type = "close" /\ rec.position_id = id
                         /\ rec.reason \in {"TP reached", "SL reached", "Signal reversal"}
                         /\ \A price \in PricesRealizing(p, rec.pnl) :
                              /\ TpOrSlCondition(p, price) <=> rec.reason # "Signal reversal"
                              /\ rec.reason = "TP reached" <=> CheckTpSlHit(p, price) = "TP"
             ELSE /\ trade_history' = trade_history
                  /\ DOMAIN positions' = DOMAIN positions
                  /\ last_op'.op = "monitor" =>
                        ~TpOrSlCondition(p, positions'[id].current_price)]_vars

\* a monitor step has closed a position whose take-profit was reached
C18_Witness ==
    /\ impl = "sim"
    /\ pc["t1"] = "monitor"
    /\ last_op.op = "close" /\ last_op.ok
    /\ trade_history # <<>>
    /\ trade_history[Len(trade_history)].reason = "TP reached"
    /\ trade_history[Len(trade_history)].position_id = last_op.id
    /\ last_op.id \notin DOMAIN positions
    /\ last_op.pnl > 0

----------------------------------------------------------------------------
(* The loop of the "sim" deployment alone, over long and short positions   *)
(* and prices on both sides of the entry                                   *)

TrailInit == Init /\ impl = "sim"

\* _manage_single_position
TrailManage == ManagePositionAt(TrailPrices, TrailSignals)

\* _scan_for_signals for one symbol
TrailScan == ScanPairWith(TrailSignals)

TrailNext ==
    \/ Start
    \/ TradingCycleBegin
    \/ TrailManage
    \/ CheckCapacity
    \/ TrailScan
    \/ Wait("t1")

TrailSpec == TrailInit /\ [][TrailNext]_vars

\* _scan_for_signals for one symbol, every signal carrying an ATR
AtrScan == ScanPairWith(AtrSignals)

\* the loops of both deployments with an ATR available for every signal
AtrNext ==
    \/ Start
    \/ TradingCycleBegin
    \/ ManageSinglePosition
    \/ CheckCapacity
    \/ AtrScan
    \/ Wait("t1")
    \/ UserStart("t1")
    \/ RunLoopInit("t1")
    \/ UserCycleBegin("t1")
    \/ UserScanPair("t1")
    \/ UserOpenPosition("t1")

AtrSpec == Init /\ [][AtrNext]_vars

\* the position recorded under id is the same position before and after the step
\* (and not a new entry recorded under an id that was drawn again)
SamePosition(id) ==
    /\ id \in DOMAIN positions \cap DOMAIN positions'
    /\ positions'[id].pair = positions[id].pair
    /\ positions'[id].side = positions[id].side

\* C19: while a position is open its stop never loosens: a long position's stop
\* never decreases and a short position's stop never increases, so every accepted
\* trailing-stop update is strictly tighter than the stop in force before it
C19_StopNeverLoosens ==
    [][\A id \in DOMAIN positions :
         SamePosition(id) =>
            /\ positions[id].side = "long"
                  => positions'[id].stop_loss >= positions[id].stop_loss
            /\ positions[id].side = "short"
                  => positions'[id].stop_loss <= positions[id].stop_loss]_vars

\* a monitor step has left a short position's trailed stop in force although the
\* candidate at the latest price would have loosened it
C19_Witness ==
    /\ last_op.op = "monitor"
    /\ last_op.id \in DOMAIN positions
    /\ LET p == positions[last_op.id]
       IN  /\ p.side = "short"
           /\ p.stop_loss < p.entry_price
           /\ TrailingEngaged(p, p.current_price)
           /\ TrailingCandidate(p, p.current_price) > p.stop_loss

\* C20: a tick or a manual close that finds the latest price of the position's
\* pair to be 0 leaves the position and the wallet unchanged, and no effect of a
\* price of 0 ever reaches the ledger: no open position carries a current price
\* of 0 and no close realizes the P&L of a price of 0
C20_ZeroPriceSkipped ==
    [][/\ last_op'.op = "no_price" => UNCHANGED ledger_vars
       /\ \A id \in DOMAIN positions' : positions'[id].current_price # 0
       /\ \A id \in DOMAIN positions \ DOMAIN positions' :
            (last_op'.op = "close" /\ last_op'.id = id)
               => last_op'.pnl # ClosePnl(id, 0)]_vars

\* the monitoring has just skipped an open position whose price was unavailable
C20_Witness ==
    /\ impl = "sim"
    /\ pc["t1"] = "monitor"
    /\ last_op.op = "no_price"
    /\ last_op.id \in DOMAIN positions
    /\ positions[last_op.id].current_price = positions[last_op.id].entry_price

\* the loop has made an order attempt for the symbol at its scan index
OpenAttempt ==
    /\ pc["t1"] \in {"scan", "open"}
    /\ last_op'.op \in {"open", "order_failed", "size_too_small"}

\* C21: within a tick the loop makes at most one open attempt per symbol and at
\* most one close attempt per position: after an attempt for a symbol, failed or
\* not, the scan moves on to a later symbol or the tick ends, the scan never goes
\* back within a tick, and a close by the monitoring is for the head of the
\* snapshot, which is dropped and does not occur in the rest of the snapshot
C21_AtMostOneAttemptPerTick ==
    [][/\ OpenAttempt => (pc'["t1"] = "wait" \/ scan_idx'["t1"] > scan_idx["t1"])
       /\ (pc["t1"] \in {"scan", "open"} /\ pc'["t1"] \in {"scan", "open"})
             => scan_idx'["t1"] >= scan_idx["t1"]
       /\ (pc["t1"] = "monitor" /\ last_op'.op \in {"close", "no_price"})
             => /\ to_manage # <<>>
                /\ last_op'.id = Head(to_manage)
                /\ to_manage' = Tail(to_manage)
                /\ \A i \in 1..Len(to_manage') : to_manage'[i] # last_op'.id]_vars

\* an order attempt for the first symbol has failed and the loop is at the second
\* symbol, the first still without a position
C21_Witness ==
    /\ last_op.op = "order_failed"
    /\ pc["t1"] = "scan"
    /\ scan_idx["t1"] = 2
    /\ ~HasPositionForPair(TradingPairs[1])

----------------------------------------------------------------------------
(* The deployments under every setting of the side switches                *)

\* TRADING_PARAMS with both sides enabled, or one of them disabled
TradingParamSets ==
    {[enable_long |-> l, enable_short |-> s] : l \in BOOLEAN, s \in BOOLEAN} \
        {[enable_long |-> FALSE, enable_short |-> FALSE]}

SideInit == \E params \in TradingParamSets : InitWith(params)

SideSpec == SideInit /\ [][Next]_vars

\* the side named by action is enabled
SideEnabled(action) ==
    \/ action = "long"  /\ trading_params.enable_long
    \/ action = "short" /\ trading_params.enable_short

\* C22: a position is opened only for a signal whose action is long or short,
\* whose strength is at least min_signal_strength and whose side is enabled
C22_OpenOnlyOnApprovedSignal ==
    [][(last_op'.op = "open" /\ last_op'.ok /\ opened' # opened) =>
          /\ last_op'.id \in DOMAIN positions'
          /\ SideEnabled(positions'[last_op'.id].side)
          /\ impl = "user" =>
                \E t \in Threads :
                   /\ pc[t] = "open"
                   /\ pending[t].sig.action = positions'[last_op'.id].side
                   /\ pending[t].sig.strength >= min_signal_strength]_vars

----------------------------------------------------------------------------
(* Strategies: analyze(data, current_price) of the built-in strategies and *)
(* the multi-timeframe combination of SignalGenerator.  Strengths are in   *)
(* thousandths (1000 is 1.0); a frame is the tail of one timeframe's       *)
(* DataFrame                                                               *)

Min2(a, b) == IF a < b THEN a ELSE b
Max2(a, b) == IF a > b THEN a ELSE b

\* the timeframes of the strategies' data (timeframe_mapping of signal_generator.py)
StrategyTimeframes == {"5m", "1h", "4h"}

\* the columns add_all_indicators writes
PipelineColumns == {"EMA_9", "EMA_21", "MACD", "MACD_signal", "MACD_hist", "RSI", "close"}

\* frames given to analyze: a timeframe that is not in the data, an empty
\* DataFrame, one of a single row, one without indicator columns; frames of two
\* rows with the indicator values of the last two rows (EMA_21 is 100, macd_diff
\* is MACD - MACD_signal, the histogram has its sign and was 0 a row before);
\* frames whose columns have the lowercase names EMACrossoverStrategy reads
MarketFrames ==
    LET Frame(present, rows, cols, ema_9, prev_ema_9, macd_diff, prev_macd_diff, rsi) ==
            [present |-> present, rows |-> rows, cols |-> cols,
             ema_9 |-> ema_9, prev_ema_9 |-> prev_ema_9, ema_21 |-> 100,
             macd_diff |-> macd_diff, prev_macd_diff |-> prev_macd_diff,
             macd_hist |-> macd_diff, prev_hist |-> 0, rsi |-> rsi]
    IN  {Frame(FALSE, 0, {}, 0, 0, 0, 0, 0),
         Frame(TRUE, 0, PipelineColumns, 0, 0, 0, 0, 0),
         Frame(TRUE, 1, PipelineColumns, 115, 115, 1, 1, 60),
         Frame(TRUE, 2, {"close"}, 0, 0, 0, 0, 0)}
        \cup {Frame(TRUE, 2, PipelineColumns, e, e, m, pm, r) :
                 e \in {85, 115}, m \in {-1, 1}, pm \in {-1, 1}, r \in {20, 60, 80}}
        \cup {Frame(TRUE, 2, {"ema_9", "ema_21", "close"}, e, pe, 1, 1, 60) :
                 e \in {85, 115}, pe \in {85, 115}}

\* a signal returned by analyze; reasons is the set of the kinds of reason in
\* the list; gated, computed and floor record the comparison of the computed
\* strength with the strategy's floor, when analyze got as far as that
Signal(action, strength, reasons) ==
    [raised |-> FALSE, action |-> action, strength |-> strength, reasons |-> reasons,
     gated |-> FALSE, computed |-> 0, floor |-> 0]

\* analyze raised an exception to its caller
Raised == [Signal(None, 0, {}) EXCEPT !.raised = TRUE]

\* _flat_signal(reason)
FlatSignal(reason) == Signal("flat", 0, {reason})

\* "if strength < self.params['min_strength']": the action becomes flat; the
\* reason of the rejection is appended always, or only to a signal that was not
\* flat before
Gate(action, strength, floor, reasons, always) ==
    [Signal(IF strength < floor THEN "flat" ELSE action, strength,
            reasons \cup (IF strength < floor /\ (always \/ action # "flat")
                          THEN {"below threshold"} ELSE {}))
     EXCEPT !.gated = TRUE, !.computed = strength, !.floor = floor]

\* "strength = min(strength, 1.0)"
CapStrength(strength) == Min2(strength, 1000)

\* BaseStrategy.validate_data
ValidateData(data, required) ==
    \A tf \in required : data[tf].present /\ data[tf].rows > 0

\* BaseStrategy.calculate_trend_strength
CalculateTrendStrength(ema_fast, ema_slow, price) ==
    LET distance == IF ema_fast < ema_slow THEN ema_slow - ema_fast ELSE ema_fast - ema_slow
    IN  IF ema_fast = 0 \/ ema_slow = 0 THEN 0
        ELSE IF \/ (price > ema_slow /\ ema_fast > ema_slow)
                \/ (~(price > ema_slow) /\ ema_fast < ema_slow)
             THEN Min2((distance * 10000) \div ema_slow, 1000)
             ELSE 0

\* weights of the timeframes in CombinedStrategy and EMACrossoverStrategy
TimeframeWeight(tf) == IF tf = "4h" THEN 3 ELSE IF tf = "1h" THEN 2 ELSE 1

\* (variant: the scores are not divided by the total weight)
WeightedScore_Unnormalized(analyses, tfs, side) ==
    LET Term(tf) == IF tf \in tfs /\ analyses[tf].trend = side
                    THEN analyses[tf].strength * TimeframeWeight(tf) ELSE 0
    IN  Term("5m") + Term("1h") + Term("4h")

\* _aggregate_multi_timeframe / _aggregate_signals: the normalized score of a side
\* over the analysed timeframes tfs (not empty)
WeightedScore(analyses, tfs, side) ==
    LET Term(tf) == IF tf \in tfs /\ analyses[tf].trend = side
                    THEN analyses[tf].strength * TimeframeWeight(tf) ELSE 0
        Weight(tf) == IF tf \in tfs THEN TimeframeWeight(tf) ELSE 0
    IN  (Term("5m") + Term("1h") + Term("4h"))
           \div (Weight("5m") + Weight("1h") + Weight("4h"))

\* the action and strength of an aggregation whose entry threshold is floor
Aggregate(analyses, tfs, floor) ==
    LET bullish_score == WeightedScore(analyses, tfs, "bullish")
        bearish_score == WeightedScore(analyses, tfs, "bearish")
    IN  IF bullish_score > bearish_score /\ bullish_score > floor
        THEN [action |-> "long", strength |-> bullish_score]
        ELSE IF bearish_score > bullish_score /\ bearish_score > floor
        THEN [action |-> "short", strength |-> bearish_score]
        ELSE [action |-> "flat", strength |-> Max2(bullish_score, bearish_score)]

\* CombinedStrategy._analyze_timeframe
CombinedAnalyzeTimeframe(f, price) ==
    LET Count3(a, b, c) == (IF a THEN 1 ELSE 0) + (IF b THEN 1 ELSE 0) + (IF c THEN 1 ELSE 0)
        ema_bullish  == f.ema_9 > f.ema_21
        ema_bearish  == f.ema_9 < f.ema_21
        ema_strength == CalculateTrendStrength(f.ema_9, f.ema_21, price)
        macd_bullish == f.macd_diff > 0 /\ f.macd_hist > 0
        macd_bearish == f.macd_diff < 0 /\ f.macd_hist < 0
        bullish_signals == Count3(ema_bullish, macd_bullish,
                                  f.rsi < 30 \/ (f.rsi < 50 /\ ema_bullish))
        bearish_signals == Count3(ema_bearish, macd_bearish,
                                  f.rsi > 70 \/ (f.rsi > 50 /\ ema_bearish))
    IN  IF bullish_signals >= 2
        THEN [trend |-> "bullish",
              strength |-> CapStrength((bullish_signals * (1000 + ema_strength)) \div 6)]
        ELSE IF bearish_signals >= 2
        THEN [trend |-> "bearish",
              strength |-> CapStrength((bearish_signals * (1000 + ema_strength)) \div 6)]
        ELSE [trend |-> "neutral", strength |-> 0]

\* CombinedStrategy: params['min_signal_strength'] and the entry threshold of
\* _aggregate_multi_timeframe
combined_min_signal_strength == 700
combined_entry_threshold == 500

\* CombinedStrategy.analyze: the timeframes that are present with at least two
\* rows are analysed, the analyses aggregated, and the 5m frame read again
CombinedAnalyze(data, price) ==
    LET analysed == {tf \in StrategyTimeframes : data[tf].present /\ data[tf].rows >= 2}
        agg == Aggregate([tf \in StrategyTimeframes |-> CombinedAnalyzeTimeframe(data[tf], price)],
                         analysed, combined_entry_threshold)
    IN  IF ~ValidateData(data, StrategyTimeframes) THEN FlatSignal("Insufficient data")
        ELSE IF \E tf \in analysed : ~(PipelineColumns \subseteq data[tf].cols) THEN Raised
        ELSE IF analysed = {} THEN FlatSignal("No valid timeframe data")
        ELSE IF ~(PipelineColumns \subseteq data["5m"].cols) THEN Raised
        ELSE Gate(agg.action, agg.strength, combined_min_signal_strength, {"overall"}, TRUE)

\* MACDStrategy: params['min_strength']
macd_min_strength == 650

\* MACDStrategy.analyze: the 5m frame gives the action and a strength, the 1h
\* trend confirms it or halves it
MacdAnalyze(data, price) ==
    LET f == data["5m"]
        h == data["1h"]
        bullish_cross == f.macd_diff > 0 /\ f.prev_macd_diff <= 0
        bearish_cross == f.macd_diff < 0 /\ f.prev_macd_diff >= 0
        hist_growing  == f.macd_hist > f.prev_hist
        hist_positive == f.macd_hist > 0
        hist_negative == f.macd_hist < 0
        bullish ==
            IF bullish_cross THEN [action |-> "long", strength |-> 800]
            ELSE IF hist_positive /\ hist_growing THEN [action |-> "long", strength |-> 600]
            ELSE IF f.macd_diff > 0 /\ hist_positive THEN [action |-> "long", strength |-> 500]
            ELSE [action |-> "flat", strength |-> 0]
        primary ==
            IF bearish_cross THEN [action |-> "short", strength |-> 800]
            ELSE IF hist_negative /\ ~hist_growing THEN [action |-> "short", strength |-> 600]
            ELSE IF f.macd_diff < 0 /\ hist_negative THEN [action |-> "short", strength |-> 500]
            ELSE bullish
        trend_bullish == h.ema_9 > h.ema_21 /\ h.macd_diff > 0
        trend_bearish == h.ema_9 < h.ema_21 /\ h.macd_diff < 0
        confirmed ==
            IF primary.action = "long" /\ trend_bullish THEN primary.strength + 200
            ELSE IF primary.action = "short" /\ trend_bearish THEN primary.strength + 200
            ELSE IF primary.action = "long" /\ trend_bearish THEN primary.strength \div 2
            ELSE IF primary.action = "short" /\ trend_bullish THEN primary.strength \div 2
            ELSE primary.strength
    IN  IF ~ValidateData(data, {"5m", "1h"}) THEN FlatSignal("Insufficient data")
        ELSE IF f.rows < 2 THEN FlatSignal("Not enough data points")
        ELSE IF ~({"MACD", "MACD_signal", "MACD_hist"} \subseteq f.cols) THEN Raised
        ELSE IF ~({"EMA_9", "EMA_21", "MACD", "MACD_signal"} \subseteq h.cols) THEN Raised
        ELSE Gate(primary.action, CapStrength(confirmed), macd_min_strength,
                  IF primary.action # "flat" THEN {"5m"} ELSE {}, TRUE)

\* EMACrossoverStrategy: params['min_strength'] and the entry threshold of
\* _aggregate_signals
ema_min_strength == 600
ema_entry_threshold == 300

\* EMACrossoverStrategy.analyze: every timeframe of at least two rows gives a
\* signal from the columns 'ema_9' and 'ema_21'; the signals are aggregated
EmaAnalyze(data, price) ==
    LET analysed == {tf \in StrategyTimeframes : data[tf].rows >= 2}
        TimeframeSignal(f) ==
            LET bullish_cross == f.ema_9 > f.ema_21 /\ f.prev_ema_9 <= f.ema_21
                bearish_cross == f.ema_9 < f.ema_21 /\ f.prev_ema_9 >= f.ema_21
                strength == CalculateTrendStrength(f.ema_9, f.ema_21, price)
            IN  IF bullish_cross
                THEN [trend |-> "bullish", strength |-> CapStrength(strength + 300)]
                ELSE IF bearish_cross
                THEN [trend |-> "bearish", strength |-> CapStrength(strength + 300)]
                ELSE IF f.ema_9 > f.ema_21 THEN [trend |-> "bullish", strength |-> strength]
                ELSE IF f.ema_9 < f.ema_21 THEN [trend |-> "bearish", strength |-> strength]
                ELSE [trend |-> "neutral", strength |-> 0]
        signals == [tf \in StrategyTimeframes |-> TimeframeSignal(data[tf])]
        agg == Aggregate(signals, analysed, ema_entry_threshold)
    IN  IF ~ValidateData(data, StrategyTimeframes) THEN FlatSignal("Insufficient data")
        ELSE IF \E tf \in analysed : ~({"ema_9", "ema_21"} \subseteq data[tf].cols) THEN Raised
        ELSE IF analysed = {} THEN FlatSignal("No valid signals")
        ELSE IF ~({"ema_9", "ema_21"} \subseteq data["5m"].cols) THEN Raised
        ELSE Gate(agg.action, agg.strength, ema_min_strength,
                  {tf \in analysed : signals[tf].trend # "neutral"}, TRUE)

\* RSIStrategy: params
rsi_oversold_level == 30
rsi_overbought_level == 70
rsi_extreme_oversold == 20
rsi_extreme_overbought == 80
rsi_min_strength == 600

\* RSIStrategy.analyze (use_divergence is off)
RsiAnalyze(data, price) ==
    LET rsi_5m == data["5m"].rsi
        rsi_1h == data["1h"].rsi
        primary ==
            IF rsi_5m <= rsi_oversold_level
            THEN LET s == IF rsi_5m <= rsi_extreme_oversold THEN 900 ELSE 700
                 IN  [action |-> "long",
                      strength |-> IF rsi_1h <= rsi_oversold_level
                                   THEN CapStrength(s + 200) ELSE s]
            ELSE IF rsi_5m >= rsi_overbought_level
            THEN LET s == IF rsi_5m >= rsi_extreme_overbought THEN 900 ELSE 700
                 IN  [action |-> "short",
                      strength |-> IF rsi_1h >= rsi_overbought_level
                                   THEN CapStrength(s + 200) ELSE s]
            ELSE [action |-> "flat", strength |-> 0]
    IN  IF ~ValidateData(data, {"5m", "1h"}) THEN FlatSignal("Insufficient data")
        ELSE IF ~("RSI" \in data["5m"].cols) \/ ~("RSI" \in data["1h"].cols) THEN Raised
        ELSE Gate(primary.action, primary.strength, rsi_min_strength, {"5m"}, FALSE)

\* SupportResistanceStrategy: params['min_strength'], params['support_proximity_pct']
\* in hundredths of a percent
sr_min_strength == 600
sr_support_proximity == 100

\* what SupportResistanceStrategy.analyze derives from the data: validate_data, an
\* exception inside its try block, the distance of the price above the nearest
\* support in hundredths of a percent (-1: no support level), the price near a
\* resistance, the 4h trend, a nearby support in the 5m frame
SrReadings ==
    [valid : BOOLEAN, error : BOOLEAN, support_distance : {-1, 0, 50, 100, 150},
     near_resistance : BOOLEAN, trend_bullish : BOOLEAN, support_5m : BOOLEAN]

\* SupportResistanceStrategy.analyze (_check_near_support gives the strength of
\* the support)
SrAnalyze(r) ==
    LET near_support == 0 <= r.support_distance /\ r.support_distance <= sr_support_proximity
        s0 == CapStrength(700 + (300 * (sr_support_proximity - r.support_distance))
                                   \div sr_support_proximity)
        s1 == IF r.trend_bullish THEN CapStrength(s0 + 150) ELSE s0
        s2 == IF r.support_5m THEN CapStrength(s1 + 100) ELSE s1
        primary == IF near_support /\ ~r.near_resistance
                   THEN [action |-> "long", strength |-> s2]
                   ELSE [action |-> "flat", strength |-> 0]
    IN  IF ~r.valid THEN FlatSignal("Insufficient data")
        ELSE IF r.error THEN FlatSignal("Analysis error")
        ELSE Gate(primary.action, primary.strength, sr_min_strength, {"levels"}, FALSE)

\* what analyze_timeframe reads from one timeframe: the timeframe has data, the
\* trend, the close on the trend's side of EMA_200, the MACD signal agrees with
\* the trend, the RSI inside 30..70 ("inside"), at the extreme that agrees with
\* the trend ("extreme"), or neither
TimeframeReadings ==
    {[present |-> FALSE, trend |-> "neutral", ema_200 |-> FALSE, macd |-> FALSE, rsi |-> "none"],
     [present |-> TRUE,  trend |-> "neutral", ema_200 |-> FALSE, macd |-> FALSE, rsi |-> "none"]}
    \cup [present : {TRUE}, trend : {"bullish", "bearish"}, ema_200 : BOOLEAN,
          macd : BOOLEAN, rsi : {"inside", "extreme", "none"}]

\* _calculate_signal_strength, in thousandths
CalculateSignalStrength(r) ==
    IF r.trend = "neutral" THEN 0
    ELSE CapStrength(200 + (IF r.ema_200 THEN 200 ELSE 0) + (IF r.macd THEN 300 ELSE 0)
                       + (IF r.rsi = "inside" THEN 300 ELSE IF r.rsi = "extreme" THEN 200 ELSE 0))

\* generate_signal in legacy mode: _combine_multi_timeframe_signals weighs the
\* timeframes 0.3, 0.3 and 0.4; the scores and the strength are in percent
LegacyAnalyze(readings) ==
    LET Weight(tf) == IF tf = "long_term" THEN 40 ELSE 30
        Term(tf, side) == IF readings[tf].present /\ readings[tf].trend = side
                          THEN Weight(tf) * CalculateSignalStrength(readings[tf]) ELSE 0
        Score(side) == (Term("short_term", side) + Term("medium_term", side)
                          + Term("long_term", side)) \div 1000
        \* analyses.get('short_term', {}).get('last_close', 0)
        current_price == IF readings["short_term"].present THEN 10000 ELSE 0
    IN  CombineSignal(Score("bullish"), Score("bearish"), current_price, 0)

\* StrategyManager.analyze_with_active_strategy with s the active strategy
BuiltinAnalyze(s, data, price) ==
    CASE s = "combined" -> CombinedAnalyze(data, price)
      [] s = "macd" -> MacdAnalyze(data, price)
      [] s = "ema_crossover" -> EmaAnalyze(data, price)
      [] s = "rsi" -> RsiAnalyze(data, price)
      [] s = "support_resistance" -> SrAnalyze(data)

----------------------------------------------------------------------------
(* A strategy is given market data once and returns its signal             *)

\* generate_signal has fetched the frames of the timeframes
DrawFrames ==
    /\ analysis = NoAnalysis
    /\ \E data \in [StrategyTimeframes -> MarketFrames], price \in {90, 110} :
          analysis' = [kind |-> "frames", data |-> data, price |-> price,
                       strategy |-> None, result |-> Signal(None, 0, {})]
    /\ UNCHANGED <<engine_vars_but_analysis, tenant_vars>>

\* SupportResistanceStrategy has derived its readings from the frames
DrawLevels ==
    /\ analysis = NoAnalysis
    /\ \E r \in SrReadings :
          analysis' = [kind |-> "levels", data |-> r, price |-> 0,
                       strategy |-> None, result |-> Signal(None, 0, {})]
    /\ UNCHANGED <<engine_vars_but_analysis, tenant_vars>>

\* analyze_timeframe has read the timeframes of config.TIMEFRAMES (legacy mode)
DrawReadings ==
    /\ analysis = NoAnalysis
    /\ \E readings \in [{"short_term", "medium_term", "long_term"} -> TimeframeReadings] :
          analysis' = [kind |-> "readings", data |-> readings, price |-> 0,
                       strategy |-> None, result |-> Signal(None, 0, {})]
    /\ UNCHANGED <<engine_vars_but_analysis, tenant_vars>>

\* the active strategy analyses the data
Analyze ==
    /\ analysis.kind \in {"frames", "levels"}
    /\ analysis.strategy = None
    /\ \E s \in IF analysis.kind = "frames"
                THEN {"combined", "macd", "ema_crossover", "rsi"}
                ELSE {"support_resistance"} :
          analysis' = [analysis EXCEPT !.strategy = s,
                          !.result = BuiltinAnalyze(s, analysis.data, analysis.price)]
    /\ UNCHANGED <<engine_vars_but_analysis, tenant_vars>>

\* generate_signal in legacy mode combines the timeframes; the signal's
\* strength, in percent, is recorded in thousandths
AnalyzeLegacy ==
    /\ analysis.kind = "readings"
    /\ analysis.strategy = None
    /\ LET sig == LegacyAnalyze(analysis.data)
       IN  analysis' = [analysis EXCEPT !.strategy = "legacy",
                           !.result = Signal(sig.action, sig.strength * 10, {"scores"})]
    /\ UNCHANGED <<engine_vars_but_analysis, tenant_vars>>

StrategyNext ==
    \/ DrawFrames
    \/ DrawLevels
    \/ DrawReadings
    \/ Analyze
    \/ AnalyzeLegacy

StrategySpec == Init /\ [][StrategyNext]_vars

\* a strategy has been called on the drawn data
Called == analysis.kind # None /\ analysis.strategy # None

\* the call has returned a Signal
Returned == Called /\ ~analysis.result.raised

\* C23: every Signal returned by a built-in strategy or by the multi-timeframe
\* signal generator has a strength between 0 and 1 (0 and 1000 thousandths),
\* whatever the indicator values and whichever timeframes have data
C23_StrengthInUnitInterval ==
    Returned => (0 <= analysis.result.strength /\ analysis.result.strength <= 1000)

\* an aggregation over three fully aligned timeframes returns the strength 1.0
C23_Witness ==
    /\ Returned
    /\ analysis.strategy = "combined"
    /\ analysis.result.action = "long"
    /\ analysis.result.strength = 1000

\* C24: when the strength a strategy has computed is below its floor, the
\* returned signal is flat, carries the reason of the threshold rejection,
\* and reports the strength computed before the comparison
C24_GatedFlatWithReason ==
    (Returned /\ analysis.result.gated /\ analysis.result.computed < analysis.result.floor)
    => /\ analysis.result.action = "flat"
       /\ "below threshold" \in analysis.result.reasons
       /\ analysis.result.strength = analysis.result.computed

\* a timeframe every built-in strategy requires is missing from the data or empty
InsufficientData ==
    /\ analysis.kind = "frames"
    /\ \E tf \in {"5m", "1h"} : ~analysis.data[tf].present \/ analysis.data[tf].rows = 0

\* C25: analyze of a built-in strategy never raises to its caller; on an
\* internal error (a missing indicator column, a missing or empty timeframe) it
\* returns a flat Signal with at least one reason
C25_AnalyzeNeverRaises ==
    (Called /\ analysis.kind \in {"frames", "levels"})
    => /\ ~analysis.result.raised
       /\ InsufficientData => /\ analysis.result.action = "flat"
                              /\ analysis.result.reasons # {}

\* the submitted file has a defect validation is to reject: its strategy class
\* lacks a required method, it imports a forbidden module or calls a forbidden
\* function, or it defines more than one strategy class
DefectiveSubmission(s) ==
    \/ s.strategy_classes >= 1 /\ s.missing_methods
    \/ s.forbidden_import
    \/ s.forbidden_call # "none"
    \/ s.strategy_classes > 1

\* C26: validation rejects every submitted file whose strategy class lacks a
\* required method, that has a forbidden import or call, or that defines more
\* than one strategy; and no strategy is loaded or registered unless its file
\* was accepted by validation
C26_ValidationRejectsDefective ==
    /\ (loader.last.id # None /\ DefectiveSubmission(loader.last.submission))
          => ~loader.last.accepted
    /\ loader.last.loaded => loader.last.accepted
    /\ loader.loaded_strategies \subseteq custom_dir
    /\ \A k \in DOMAIN strategy_managers :
          strategy_managers[k].strategies \subseteq BuiltinStrategies \cup custom_dir

\* C27: an upload that fails, in validation or in loading, leaves no trace: the
\* registries and active strategies of the managers, the loader's loaded
\* strategies, the modules, the stored files and the rows are as before
C27_FailedUploadLeavesNothing ==
    [][(tenant_op'.op = "upload_strategy" /\ tenant_ops' # tenant_ops /\ ~tenant_op'.ok)
         => /\ strategy_managers' = strategy_managers
            /\ custom_dir' = custom_dir
            /\ loader'.loaded_strategies = loader.loaded_strategies
            /\ loader'.modules = loader.modules
            /\ loader'.rows = loader.rows]_vars

\* C28: with ATR stops enabled and an ATR above 0 available for the symbol when
\* a position is opened, the position's stop loss and take profit lie at the
\* ATR multiples from the entry price (long: SL = entry - 1.5 ATR, TP = entry +
\* 3 ATR; short mirrored), not at the percentages
C28_AtrStopsWhenAvailable ==
    [][(use_atr_stop_loss /\ last_op'.op = "open" /\ last_op'.ok /\ opened' # opened)
         => /\ last_op'.id \in DOMAIN positions'
            /\ LET p == positions'[last_op'.id]
               IN  \E atr \in AtrValues :
                      LET sl_distance == (atr * atr_stop_loss_multiplier_x10) \div 10
                          tp_distance == (atr * atr_take_profit_multiplier_x10) \div 10
                      IN  IF p.side = "long"
                          THEN /\ p.stop_loss = p.entry_price - sl_distance
                               /\ p.take_profit = p.entry_price + tp_distance
                          ELSE /\ p.stop_loss = p.entry_price + sl_distance
                               /\ p.take_profit = p.entry_price - tp_distance]_vars

----------------------------------------------------------------------------
(* The loop of the "sim" deployment over long and short positions and      *)
(* prices that reach the take-profit and the stop-loss of either side      *)

\* _manage_single_position
TpSlManage == ManagePositionAt(TpSlPrices, TrailSignals)

TpSlNext ==
    \/ Start
    \/ TradingCycleBegin
    \/ TpSlManage
    \/ CheckCapacity
    \/ TrailScan
    \/ Wait("t1")

TpSlSpec == TrailInit /\ [][TpSlNext]_vars

\* the reason of the close that the step applied to the position under id, or
\* None when the position is still open
CloseReasonOf(id) ==
    IF id \in DOMAIN positions' THEN None
    ELSE trade_history'[Len(trade_history')].reason

\* the price of the tick that managed position p: the price it left on the
\* position, or the price at which the close realized its P&L
TickPricesOf(id, p) ==
    IF id \in DOMAIN positions' THEN {positions'[id].current_price}
    ELSE {price \in TpSlPrices \cup TrailPrices \cup MarketPrices :
             /\ price # 0
             /\ CalcPnl(p.side, p.entry_price, price, p.size) = last_op'.pnl}

\* C29: at a monitor tick with a valid price a long position is closed with reason
\* "TP reached" when the price is at or above its take-profit and with reason
\* "SL reached" when the price is at or below its stop-loss, a short position
\* with the comparisons mirrored; when neither holds the tick does not close the
\* position for TP/SL
C29_TpSlCloseAtTick ==
    [][(/\ MonitorStep
        /\ Head(to_manage) \in DOMAIN positions
        /\ last_op'.op \in {"close", "monitor"}) =>
         LET id     == Head(to_manage)
             p      == positions[id]
             reason == CloseReasonOf(id)
         IN  /\ TickPricesOf(id, p) # {}
             /\ \A price \in TickPricesOf(id, p) :
                  IF p.side = "long"
                  THEN /\ price >= p.take_profit => reason = "TP reached"
                       /\ price <= p.stop_loss => reason = "SL reached"
                       /\ (price < p.take_profit /\ price > p.stop_loss)
                             => reason \notin {"TP reached", "SL reached"}
                  ELSE /\ price <= p.take_profit => reason = "TP reached"
                       /\ price >= p.stop_loss => reason = "SL reached"
                       /\ (price > p.take_profit /\ price < p.stop_loss)
                             => reason \notin {"TP reached", "SL reached"}]_vars

\* a monitor tick has closed a position at a loss, at a price beyond its stop
C29_Witness ==
    /\ impl = "sim"
    /\ last_op.op = "close" /\ last_op.ok
    /\ last_op.pnl < 0
    /\ trade_history # <<>>
    /\ trade_history[Len(trade_history)].position_id = last_op.id
    /\ trade_history[Len(trade_history)].reason = "SL reached"

----------------------------------------------------------------------------
(* The loop of the "sim" deployment over long and short positions and      *)
(* prices at and beyond the trailing threshold                             *)

\* _manage_single_position
ThresholdManage == ManagePositionAt(ThresholdPrices, TrailSignals)

ThresholdNext ==
    \/ Start
    \/ TradingCycleBegin
    \/ ThresholdManage
    \/ CheckCapacity
    \/ TrailScan
    \/ Wait("t1")

ThresholdSpec == TrailInit /\ [][ThresholdNext]_vars

\* the profit of p at price exceeds trailing_stop_percent of the entry price
ProfitBeyondTrailing(p, price) ==
    \/ p.side = "long"  /\ (price - p.entry_price) * 1000 > trailing_stop_permille * p.entry_price
    \/ p.side = "short" /\ (p.entry_price - price) * 1000 > trailing_stop_permille * p.entry_price

\* C30: a tick changes the stop of the position it manages only if trailing stops
\* are enabled and the position's profit percent at the tick's price strictly
\* exceeds trailing_stop_percent, and then the new stop is price x (1 - trailing%)
\* for a long and price x (1 + trailing%) for a short; otherwise the stop is
\* left unchanged
C30_TrailingOnlyBeyondThreshold ==
    [][(/\ MonitorStep
        /\ SamePosition(Head(to_manage))
        /\ last_op'.op = "monitor") =>
         LET id    == Head(to_manage)
             p     == positions[id]
             price == positions'[id].current_price
             new   == positions'[id].stop_loss
         IN  /\ new # p.stop_loss =>
                  /\ trailing_stop
                  /\ ProfitBeyondTrailing(p, price)
                  /\ p.side = "long"  => new = (price * (1000 - trailing_stop_permille)) \div 1000
                  /\ p.side = "short" => new = (price * (1000 + trailing_stop_permille)) \div 1000
             /\ ~(trailing_stop /\ ProfitBeyondTrailing(p, price)) => new = p.stop_loss]_vars

\* a monitor tick has moved a long position's stop to the candidate of a price
\* beyond the threshold
C30_Witness ==
    /\ last_op.op = "monitor"
    /\ last_op.id \in DOMAIN positions
    /\ LET p == positions[last_op.id]
       IN  /\ p.side = "long"
           /\ ProfitBeyondTrailing(p, p.current_price)
           /\ p.stop_loss = (p.current_price * (1000 - trailing_stop_permille)) \div 1000
           /\ p.stop_loss > p.entry_price

\* a monitor tick has left the stop of a long position whose profit is exactly
\* trailing_stop_percent where the entry put it
AtThresholdUnchanged ==
    /\ last_op.op = "monitor"
    /\ last_op.id \in DOMAIN positions
    /\ LET p == positions[last_op.id]
       IN  /\ p.side = "long"
           /\ (p.current_price - p.entry_price) * 1000 = trailing_stop_permille * p.entry_price
           /\ p.stop_loss = (p.entry_price * (100 - stop_loss_percent)) \div 100

----------------------------------------------------------------------------
(* The loop of the "sim" deployment with the signal of the monitoring      *)
(* observable: the market data of the tick determine the signal that       *)
(* generate_signal returns to _manage_single_position                      *)

\* latest prices for the reversal runs: one between the levels of either side,
\* one on the take-profit of a long and beyond the stop-loss of a short
ReversalPrices == {10100, 10400}

\* the signals of the monitoring: a score above the threshold, on the threshold,
\* and above the threshold without exceeding the other side's
ReversalSignals ==
    {CombineSignal(sc[1], sc[2], p, 0) :
        sc \in {<<0, 65>>, <<65, 0>>, <<0, 60>>, <<60, 0>>, <<65, 65>>}, p \in SignalPrices}

\* the candles change: generate_signal would now return sig
MarketMoves ==
    /\ impl = "sim"
    /\ pc["t1"] = "monitor"
    /\ to_manage # <<>>
    /\ \E sig \in ReversalSignals :
         /\ analysis # [kind |-> "tick", sig |-> sig]
         /\ analysis' = [kind |-> "tick", sig |-> sig]
    /\ UNCHANGED <<engine_vars_but_analysis, tenant_vars>>

\* _manage_single_position, the signal being the one of the current candles
ReversalManage ==
    /\ analysis.kind = "tick"
    /\ ManagePositionAt(ReversalPrices, {analysis.sig})

ReversalNext ==
    \/ Start
    \/ TradingCycleBegin
    \/ MarketMoves
    \/ ReversalManage
    \/ CheckCapacity
    \/ TrailScan
    \/ Wait("t1")

ReversalSpec == TrailInit /\ [][ReversalNext]_vars

\* in signal sig the score of the side opposing position p exceeds the threshold
\* and the score of p's own side
StrongReversal(p, sig) ==
    LET own == IF p.side = "long" THEN sig.bullish_score ELSE sig.bearish_score
        opp == IF p.side = "long" THEN sig.bearish_score ELSE sig.bullish_score
    IN  opp > 60 /\ opp > own

\* C31: a tick that does not close the position it manages for TP/SL closes it
\* for signal reversal if and only if, in the signal generated at the tick, the
\* opposing side's score exceeds 0.6 and exceeds the score of the position's side
C31_ReversalIffStrongOpposing ==
    [][(/\ MonitorStep
        /\ Head(to_manage) \in DOMAIN positions
        /\ analysis.kind = "tick"
        /\ last_op'.op \in {"close", "monitor"}
        /\ CloseReasonOf(Head(to_manage)) \notin {"TP reached", "SL reached"}) =>
         (CloseReasonOf(Head(to_manage)) = "Signal reversal"
            <=> StrongReversal(positions[Head(to_manage)], analysis.sig))]_vars

\* a tick has closed a long position in profit because the bearish score of the
\* tick's signal exceeded the threshold and the bullish score
C31_Witness ==
    /\ analysis.kind = "tick"
    /\ analysis.sig.bearish_score > 60
    /\ analysis.sig.bearish_score > analysis.sig.bullish_score
    /\ last_op.op = "close" /\ last_op.ok
    /\ last_op.pnl > 0
    /\ trade_history # <<>>
    /\ trade_history[Len(trade_history)].position_id = last_op.id
    /\ trade_history[Len(trade_history)].reason = "Signal reversal"

----------------------------------------------------------------------------
(* The loop of the "sim" deployment with the signal of the scan observable *)

\* the latest price of the monitoring, between the levels of every position
QuietPrices == {10100}

\* the signals of the scan: either side, at min_signal_strength and above it
EntrySignals ==
    {CombineSignal(100, 0, 10000, 0), CombineSignal(70, 0, 12500, 0),
     CombineSignal(0, 85, 10000, 0)}

\* the candles change: generate_signal would now return sig to the scan
SignalForms ==
    /\ impl = "sim"
    /\ pc["t1"] = "scan"
    /\ \E sig \in EntrySignals :
         /\ analysis # [kind |-> "tick", sig |-> sig]
         /\ analysis' = [kind |-> "tick", sig |-> sig]
    /\ UNCHANGED <<engine_vars_but_analysis, tenant_vars>>

\* _scan_for_signals for one symbol, the signal being the one of the current candles
EntryScan ==
    /\ analysis.kind = "tick"
    /\ ScanPairWith({analysis.sig})

\* _manage_single_position
QuietManage == ManagePositionAt(QuietPrices, TrailSignals)

EntryNext ==
    \/ Start
    \/ TradingCycleBegin
    \/ QuietManage
    \/ CheckCapacity
    \/ SignalForms
    \/ EntryScan
    \/ Wait("t1")

EntrySpec == TrailInit /\ [][EntryNext]_vars

\* a step of the scan has opened the position now recorded under id
OpenedBy(id) ==
    /\ last_op'.op = "open" /\ last_op'.ok /\ last_op'.id = id
    /\ opened' = opened + 1
    /\ id \in DOMAIN positions'
    /\ analysis.kind = "tick"

TimeframeTooShort ==
    \/ /\ analysis.kind = "readings"
       /\ \E tf \in DOMAIN analysis.data : ~analysis.data[tf].present
    \/ InsufficientData

\* _evaluate_signal would pass the returned signal on to _execute_trade, and the
\* order would have a size: the signal has a side, its strength is not below
\* min_signal_strength, and its current_price is not 0
EntryFollows ==
    /\ Returned
    /\ analysis.result.action \in {"long", "short"}
    /\ ~(analysis.result.strength < min_signal_strength * 10)
    /\ analysis.kind = "readings" => analysis.data["short_term"].present

\* C34: when the candle series of a timeframe is too short or empty the analysis
\* is neutral, not an error, and no position is opened for the symbol in the cycle
C34_TooShortOpensNothing ==
    (Called /\ TimeframeTooShort) => (~analysis.result.raised /\ ~EntryFollows)

\* the part of C34 that holds: a strategy whose required timeframe is missing or
\* empty returns a flat signal, and the legacy generator without its short-term
\* candles yields no order
TooShortRequiredOpensNothing ==
    (Called /\ (InsufficientData
                  \/ (analysis.kind = "readings" /\ ~analysis.data["short_term"].present)))
       => (~analysis.result.raised /\ ~EntryFollows)

----------------------------------------------------------------------------
(* The loop of the "sim" deployment when execute_market_order may draw an  *)
(* id that is in use                                                       *)

\* the ids uuid4().hex[:8] may yield: any id, one of an open position included
AnyIds == {IdOrder[i] : i \in 1..Len(IdOrder)}

\* _scan_for_signals for one symbol
CollisionScan == ScanPairFrom(SimSignals, AnyIds)

CollisionNext ==
    \/ Start
    \/ TradingCycleBegin
    \/ QuietManage
    \/ CheckCapacity
    \/ CollisionScan
    \/ Wait("t1")

CollisionSpec == TrailInit /\ [][CollisionNext]_vars

\* C35: locked_margin is the sum of the margins of the open positions (0 when
\* none is open), also after an open under a position id that is in use
C35_LockedIsSumOfMargins ==
    locked_margin = SumMargins(DOMAIN positions)

----------------------------------------------------------------------------
(* UserWalletManager.close_position run by two request threads at once:    *)
(* each thread's session reads the wallet row and the open position row,   *)
(* and writes what it computed from them when it commits; no row is locked *)

\* close_position up to the P&L: the session of thread c has read tenant w's
\* wallet row and found the position row open
CloseLookup(c, w) ==
    /\ closing[c] = NoClosing
    /\ tenant_ops < MaxTenantOps
    /\ \E id \in RowIds, close_price \in MarketPrices \ {0} :
         /\ OpenRow(position_rows, w, id)
         /\ closing' = [closing EXCEPT ![c] =
                           [tenant |-> w, id |-> id, close_price |-> close_price,
                            wallet |-> wallets[w], pos |-> position_rows[id].pos]]
    /\ UNCHANGED <<engine_vars, table_vars, tenant_op, tenant_ops, strategy_vars>>

\* close_position from the P&L to the commit: the attributes the session has
\* assigned are written as it computed them, the trade row is inserted
CloseCommit(c) ==
    /\ closing[c] # NoClosing
    /\ TableStep
    /\ LET r   == closing[c]
           w   == r.tenant
           p   == r.pos
           pnl == CalcPnl(p.side, p.entry_price, r.close_price, p.size)
       IN  \E dbok \in BOOLEAN :
             IF dbok /\ r.id \in DOMAIN position_rows
             THEN /\ wallets' = [wallets EXCEPT
                       ![w].locked_margin = LockedAfterClose(r.wallet.locked_margin, p.margin),
                       ![w].balance = BalanceAfterClose(r.wallet.balance, p.margin, pnl),
                       ![w].total_pnl = TotalPnlAfterClose(r.wallet.total_pnl, pnl),
                       ![w].total_trades = r.wallet.total_trades + 1,
                       ![w].winning_trades = r.wallet.winning_trades
                                                + (IF IsWinningTrade(pnl) THEN 1 ELSE 0),
                       ![w].losing_trades = r.wallet.losing_trades
                                                + (IF IsWinningTrade(pnl) THEN 0 ELSE 1)]
                  /\ trade_rows' = Append(trade_rows,
                                          [wallet_id |-> w, pair |-> p.pair, pnl |-> pnl])
                  /\ position_rows' = [position_rows EXCEPT
                                         ![r.id].is_open = FALSE,
                                         ![r.id].pos = UpdatedPosition(p, r.close_price)]
                  /\ tenant_op' = TenantOp(w, "close", r.id, TRUE)
             ELSE /\ UNCHANGED table_vars
                  /\ tenant_op' = TenantOp(w, "close", r.id, FALSE)
    /\ closing' = [closing EXCEPT ![c] = NoClosing]
    /\ UNCHANGED strategy_vars

CloseRaceNext ==
    \E w \in Tenants, c \in Closers :
        \/ TenantOpenPosition(w)
        \/ TenantUpdatePrice(w)
        \/ CloseLookup(c, w)
        \/ CloseCommit(c)

CloseRaceSpec == TenantInit /\ [][CloseRaceNext]_vars

\* the closed position rows of tenant w
ClosedRows(w) == {id \in RowsOf(position_rows, w) : ~position_rows[id].is_open}

\* the sum of the realized P&L stored on the closed rows ids
RECURSIVE RealizedPnl(_)
RealizedPnl(ids) ==
    IF ids = {} THEN 0
    ELSE LET id == CHOOSE x \in ids : TRUE
         IN  position_rows[id].pos.pnl + RealizedPnl(ids \ {id})

\* C36: when close requests for the same open position are processed at the same
\* time, margin and realized P&L are credited to the balance once, the counters
\* are incremented once and one Trade record is created: per tenant the trade
\* rows and total_trades count the closed positions, and the wallet holds the
\* initial balance plus the P&L realized by them
C36_ConcurrentCloseOnce ==
    \A w \in Tenants :
       /\ Len(SelectSeq(trade_rows, LAMBDA r : r.wallet_id = w)) = Cardinality(ClosedRows(w))
       /\ wallets[w].total_trades = Cardinality(ClosedRows(w))
       /\ wallets[w].winning_trades + wallets[w].losing_trades = wallets[w].total_trades
       /\ wallets[w].balance + wallets[w].locked_margin
             = wallets[w].initial_balance + RealizedPnl(ClosedRows(w))

----------------------------------------------------------------------------
(* The ledger under a market that moves far from the entry price between   *)
(* two monitoring ticks                                                    *)

\* the prices get_latest_price returns while positions are open: near the entry
\* price, and more than three times the entry price
CrashPrices == {10100, 32000}

\* the entry signals of these runs: fully bearish, or none
CrashSignals == {CombineSignal(0, s, p, 0) : s \in {0, 100}, p \in SignalPrices}

CrashScan == ScanPairWith(CrashSignals)

CrashManage == ManagePositionAt(CrashPrices, TrailSignals)

CrashNext ==
    \/ Start
    \/ TradingCycleBegin
    \/ CrashManage
    \/ CheckCapacity
    \/ CrashScan
    \/ Wait("t1")

CrashSpec == TrailInit /\ [][CrashNext]_vars

\* C37: after any sequence of opens, price updates and closes the available
\* balance and the locked margin are both at least zero
C37_LedgerNonNegative == balance >= 0 /\ locked_margin >= 0

\* the locked margin alone never goes below zero
LockedNonNegative == locked_margin >= 0

----------------------------------------------------------------------------
(* The tenant's loop with an ATR that is large against the price, as after *)
(* a fall of the price within the candles the ATR averages                 *)

\* ATR of the signal: 2, 40 and 70 at a price of 100
VolatileAtrValues == {200, 4000, 7000}

VolatileSignals ==
    {StrategySignal(a, 100, p, atr) :
        a \in {"long", "short"}, p \in SignalPrices, atr \in VolatileAtrValues}

VolatileScan(t) == UserScanPairFrom(t, VolatileSignals)

VolatileNext ==
    \/ UserStart("t1")
    \/ RunLoopInit("t1")
    \/ UserCycleBegin("t1")
    \/ VolatileScan("t1")
    \/ UserOpenPosition("t1")
    \/ DashboardUpdatePrice

VolatileSpec == RaceInit /\ [][VolatileNext]_vars

\* the stop loss and the take profit of p are above zero and lie on opposite
\* sides of the entry price
StopsAroundEntry(p) ==
    IF p.side = "long"
    THEN 0 < p.stop_loss /\ p.stop_loss < p.entry_price /\ p.entry_price < p.take_profit
    ELSE 0 < p.take_profit /\ p.take_profit < p.entry_price /\ p.entry_price < p.stop_loss

\* C38: a position has, when it is opened, a take profit and a stop loss above
\* zero on opposite sides of its entry price (long: SL < entry < TP; short:
\* TP < entry < SL), with the percentages and with the ATR multiples
C38_StopsAroundEntryAtOpen ==
    [][(last_op'.op = "open" /\ last_op'.ok /\ opened' = opened + 1
           /\ last_op'.id \in DOMAIN positions')
         => StopsAroundEntry(positions'[last_op'.id])]_vars

----------------------------------------------------------------------------
(* The counters of the wallet row and the statistics read from the trade   *)
(* rows, with closes below, at and above the entry price                   *)

\* close prices: below the entry price of the tenants' positions, the entry
\* price itself, and above it
FlatPrices == {9800, 10000, 10200}

FlatClose(w) == TenantClosePositionAt(w, FlatPrices)

StatsNext ==
    \E w \in Tenants :
        \/ TenantOpenPosition(w)
        \/ TenantUpdatePrice(w)
        \/ FlatClose(w)
        \/ TenantReset(w)

StatsSpec == TenantInit /\ [][StatsNext]_vars

\* the trade rows of tenant w
TradesOf(w) == SelectSeq(trade_rows, LAMBDA r : r.wallet_id = w)

\* UserWalletManager(w).get_statistics: the counts it reads from the trade rows
GetStatistics(w) ==
    [total_trades   |-> Len(TradesOf(w)),
     winning_trades |-> Len(SelectSeq(TradesOf(w), LAMBDA r : IsWinningTrade(r.pnl))),
     losing_trades  |-> Len(SelectSeq(TradesOf(w), LAMBDA r : ~IsWinningTrade(r.pnl)))]

\* C39: after any sequence of closes total_trades = winning_trades +
\* losing_trades = the number of closed-trade records, a close counting as won
\* if and only if its realized pnl is above 0 and as lost otherwise; for the
\* counters of the wallet row and for the statistics alike
C39_CountersMatchHistory ==
    \A w \in Tenants :
       LET records == Len(TradesOf(w))
           won     == Len(SelectSeq(TradesOf(w), LAMBDA r : r.pnl > 0))
       IN  /\ wallets[w].total_trades = records
           /\ wallets[w].winning_trades = won
           /\ wallets[w].losing_trades = records - won
           /\ GetStatistics(w) = [total_trades |-> records, winning_trades |-> won,
                                  losing_trades |-> records - won]

\* a tenant has closed one position with a profit and one at its entry price:
\* two records, one counted as won and one as lost
C39_Witness ==
    \E w \in Tenants :
       /\ wallets[w].total_trades = 2
       /\ wallets[w].winning_trades = 1
       /\ wallets[w].losing_trades = 1
       /\ Len(TradesOf(w)) = 2
       /\ \E i \in 1..2 : TradesOf(w)[i].pnl = 0
       /\ \E i \in 1..2 : TradesOf(w)[i].pnl > 0

WeakerSignalLocksLess ==
    /\ last_op.op = "open"
    /\ last_op.ok
    /\ last_op.id \in DOMAIN positions
    /\ analysis.kind = "tick"
    /\ analysis.sig.strength = 70
    /\ positions[last_op.id].margin * 100
          < max_position_size_percent * (balance + positions[last_op.id].margin)

============================================================================
